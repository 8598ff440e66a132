---------------------------- MODULE ClientsProofs ----------------------------
(***************************************************************************)
(* What TLAPS proves of the user's side - the browser extension, the       *)
(* cleanup wizard and the pages of the web application - for any requests, *)
(* stored states, links, prices, forms, keys and bounds.                   *)
(***************************************************************************)
EXTENDS MCClients, FiniteSetTheorems, SequenceTheorems, WellFoundedInduction, TLAPS

-----------------------------------------------------------------------------
(***************************************************************************)
(* Induction and recursion on the natural numbers, over sets and functions.*)
(***************************************************************************)
LEMMA NatSets ==
  ASSUME NEW S, 0 \in S, \A n \in Nat : n \in S => n + 1 \in S
  PROVE  \A n \in Nat : n \in S
<1> SUFFICES ASSUME NEW n \in Nat, n \notin S PROVE FALSE
  OBVIOUS
<1> DEFINE T == {k \in Nat : k \notin S}
<1>0. T \subseteq Nat /\ T # {}
  OBVIOUS
<1>1. PICK m \in T : \A k \in T : ~(<<k, m>> \in OpToRel(<, Nat))
  <2> HIDE DEF T
  <2> QED
    BY <1>0, NatLessThanWellFounded, WFMin
<1>2. m \in Nat /\ m \notin S /\ \A k \in Nat : k < m => k \in S
  <2>1. ASSUME NEW k \in T PROVE ~(k < m)
    <3>1. ~(<<k, m>> \in {p \in Nat \X Nat : p[1] < p[2]})
      BY <1>1, <2>1 DEF OpToRel
    <3>2. <<k, m>> \in Nat \X Nat /\ <<k, m>>[1] = k /\ <<k, m>>[2] = m
      OBVIOUS
    <3> QED
      BY <3>1, <3>2
  <2> QED
    BY <2>1
<1>3. m # 0 /\ m - 1 \in Nat /\ m - 1 \in S
  BY <1>2
<1> QED
  BY <1>2, <1>3

\* A function may be given by its first value and a step.
Recurs(f, X, b, G) == f \in [Nat -> X] /\ f[0] = b /\ \A n \in Nat : f[n + 1] = G[n][f[n]]

LEMMA NatRecursion ==
  ASSUME NEW X, NEW b \in X, NEW G \in [Nat -> [X -> X]]
  PROVE  \E f : Recurs(f, X, b, G)
<1> DEFINE Starts(n, g) == g \in [0..n -> X] /\ g[0] = b /\ \A k \in 0..n : k < n => g[k + 1] = G[k][g[k]]
           S == {n \in Nat : \E g : Starts(n, g)}
<1>1. 0 \in S
  <2>1. Starts(0, [k \in 0..0 |-> b])
    OBVIOUS
  <2> HIDE DEF Starts
  <2> QED
    BY <2>1
<1>2. ASSUME NEW n \in Nat, n \in S PROVE n + 1 \in S
  <2>1. PICK g : Starts(n, g)
    BY <1>2
  <2> DEFINE h == [k \in 0..(n + 1) |-> IF k = n + 1 THEN G[n][g[n]] ELSE g[k]]
  <2>2. G[n][g[n]] \in X /\ \A k \in 0..n : g[k] \in X
    BY <2>1
  <2>3. h \in [0..(n + 1) -> X]
    BY <2>2
  <2>4. h[0] = b /\ \A k \in 0..(n + 1) : k < n + 1 => h[k + 1] = G[k][h[k]]
    BY <2>1
  <2>5. Starts(n + 1, h)
    BY <2>3, <2>4
  <2> HIDE DEF Starts, h
  <2> QED
    BY <2>5
<1>3. \A n \in Nat : \E g : Starts(n, g)
  <2>1. \A n \in Nat : n \in S
    <3> HIDE DEF S
    <3> QED
      BY <1>1, <1>2, NatSets
  <2> HIDE DEF Starts
  <2> QED
    BY <2>1
<1>4. ASSUME NEW n \in Nat, NEW g, NEW h, Starts(n, g), Starts(n + 1, h) PROVE \A k \in 0..n : g[k] = h[k]
  <2> DEFINE U == {k \in Nat : k <= n => g[k] = h[k]}
  <2>1. 0 \in U
    BY <1>4
  <2>2. ASSUME NEW k \in Nat, k \in U PROVE k + 1 \in U
    BY <1>4, <2>2
  <2>3. \A k \in Nat : k \in U
    <3> HIDE DEF U
    <3> QED
      BY <2>1, <2>2, NatSets
  <2> QED
    BY <2>3
<1> DEFINE T(n) == CHOOSE g : Starts(n, g)
           f == [n \in Nat |-> T(n)[n]]
<1>5. \A n \in Nat : Starts(n, T(n))
  <2> HIDE DEF Starts
  <2> QED
    BY <1>3
<1>6. ASSUME NEW n \in Nat PROVE f[n] \in X /\ f[n + 1] = G[n][f[n]]
  <2>1. PICK g : g = T(n)
    OBVIOUS
  <2>2. PICK h : h = T(n + 1)
    OBVIOUS
  <2>3. Starts(n, g) /\ Starts(n + 1, h)
    <3> HIDE DEF Starts, T
    <3> QED
      BY <1>5, <2>1, <2>2
  <2>4. f[n] = g[n] /\ f[n + 1] = h[n + 1]
    <3> HIDE DEF T
    <3> QED
      BY <2>1, <2>2
  <2> HIDE DEF f, T
  <2>5. g[n] = h[n]
    <3> HIDE DEF Starts
    <3> QED
      BY <1>4, <2>3
  <2>6. g[n] \in X /\ h[n + 1] = G[n][h[n]]
    BY <2>3
  <2> QED
    BY <2>4, <2>5, <2>6
<1>7. f[0] = b
  <2>1. PICK g : g = T(0)
    OBVIOUS
  <2>2. Starts(0, g)
    <3> HIDE DEF Starts, T
    <3> QED
      BY <1>5, <2>1
  <2>3. f[0] = g[0]
    <3> HIDE DEF T
    <3> QED
      BY <2>1
  <2> QED
    BY <2>2, <2>3
<1>8. f \in [Nat -> X]
  <2>1. \A n \in Nat : f[n] \in X
    BY <1>6
  <2> HIDE DEF T
  <2> QED
    BY <2>1
<1>9. Recurs(f, X, b, G)
  <2> HIDE DEF f
  <2> QED
    BY <1>6, <1>7, <1>8 DEF Recurs
<1> HIDE DEF f
<1> QED
  BY <1>9

-----------------------------------------------------------------------------
(***************************************************************************)
(* The extension.                                                          *)
(***************************************************************************)
\* A stored state, and every copy of it that a read-modify-write holds.
Stored(s) ==
  /\ s = [wallet |-> s.wallet, grants |-> s.grants]
  /\ IsFiniteSet(OriginsOf(s.grants)) /\ Cardinality(OriginsOf(s.grants)) <= MaxOrigins

Handler(p) == p = [at |-> p.at, wallet |-> p.wallet, snap |-> p.snap] /\ Stored(p.snap)

\* A request is asked, worked on or done, and refused or signed only when it is done.
AnswersFollow ==
  /\ \A i \in Ids : page[i] = "idle" => proc[i].at = "idle"
  /\ \A i \in Ids : page[i] # "idle" => req[i] \in Requests
  /\ \A i \in pending : proc[i].at = "asked"
  /\ \A i \in Ids : proc[i].at = "asked" => req[i].method \in {"pair", "connect"} \cup Signs
  /\ \A i \in signed \cup declined : proc[i].at = "done"

ExtInv ==
  /\ Stored(kv) /\ (\A r \in popup : Stored(r.snap))
  /\ page = [i \in Ids |-> page[i]] /\ req = [i \in Ids |-> req[i]]
  /\ proc = [i \in Ids |-> proc[i]] /\ (\A i \in Ids : Handler(proc[i]))
  /\ (\A i \in Ids : reply[i] # "idle")
  /\ pending \subseteq Ids /\ signed \subseteq Ids /\ declined \subseteq Ids
  /\ AnswersFollow
  /\ DeclinedNeverSigned

LEMMA FrameExt == ExtInv /\ UNCHANGED extVars => ExtInv'
  BY DEF ExtInv, AnswersFollow, DeclinedNeverSigned, extVars, Stored, Handler

LEMMA StoredEmpty == Stored(Empty)
<1>1. OriginsOf({}) = {}
  BY DEF OriginsOf
<1>2. IsFiniteSet({}) /\ Cardinality({}) = 0
  BY FS_EmptySet
<1> QED
  BY <1>1, <1>2, ExtensionAssumption DEF Stored, Empty

\* Fewer grants are of fewer origins.
LEMMA FewerOrigins ==
  ASSUME NEW s, Stored(s), NEW h \in SUBSET s.grants
  PROVE  Stored([s EXCEPT !.grants = h]) /\ (\A w : Stored([wallet |-> w, grants |-> h]))
<1>1. OriginsOf(h) \subseteq OriginsOf(s.grants)
  BY DEF OriginsOf
<1>2. /\ IsFiniteSet(OriginsOf(h))
      /\ Cardinality(OriginsOf(h)) \in Nat /\ Cardinality(OriginsOf(s.grants)) \in Nat
      /\ Cardinality(OriginsOf(h)) <= Cardinality(OriginsOf(s.grants))
  BY <1>1, FS_Subset, FS_CardinalityType DEF Stored
<1>3. [s EXCEPT !.grants = h] = [wallet |-> s.wallet, grants |-> h]
  BY DEF Stored
<1>4. Cardinality(OriginsOf(h)) <= MaxOrigins
  BY <1>2, ExtensionAssumption DEF Stored
<1> QED
  BY <1>2, <1>3, <1>4 DEF Stored

\* addGrant adds an origin only below the limit.
LEMMA GrantWithinLimit ==
  ASSUME NEW s, Stored(s), NEW o, NEW n, NEW a, ~OverLimit(s, o),
         NEW h, h = {g \in s.grants : g.origin # o \/ g.network # n} \cup {[origin |-> o, network |-> n, account |-> a]}
  PROVE  Stored([s EXCEPT !.grants = h])
<1>1. OriginsOf(h) \subseteq OriginsOf(s.grants) \cup {o}
  BY DEF OriginsOf
<1>0. [s EXCEPT !.grants = h] = [wallet |-> s.wallet, grants |-> h]
  BY DEF Stored
<1>2. CASE o \in OriginsOf(s.grants)
  <2>1. OriginsOf(h) \subseteq OriginsOf(s.grants)
    BY <1>1, <1>2
  <2>2. /\ IsFiniteSet(OriginsOf(h))
        /\ Cardinality(OriginsOf(h)) \in Nat /\ Cardinality(OriginsOf(s.grants)) \in Nat
        /\ Cardinality(OriginsOf(h)) <= Cardinality(OriginsOf(s.grants))
    BY <2>1, FS_Subset, FS_CardinalityType DEF Stored
  <2> QED
    BY <1>0, <2>2, ExtensionAssumption DEF Stored
<1>3. CASE o \notin OriginsOf(s.grants)
  <2>1. Cardinality(OriginsOf(s.grants)) < MaxOrigins /\ Cardinality(OriginsOf(s.grants)) \in Nat
    BY <1>3, FS_CardinalityType, ExtensionAssumption DEF OverLimit, Stored
  <2>2. IsFiniteSet(OriginsOf(s.grants) \cup {o}) /\ Cardinality(OriginsOf(s.grants) \cup {o}) = Cardinality(OriginsOf(s.grants)) + 1
    BY <1>3, FS_AddElement DEF Stored
  <2>3. /\ IsFiniteSet(OriginsOf(h)) /\ Cardinality(OriginsOf(h)) \in Nat
        /\ Cardinality(OriginsOf(h)) <= Cardinality(OriginsOf(s.grants) \cup {o})
    BY <1>1, <2>2, FS_Subset, FS_CardinalityType
  <2> QED
    BY <1>0, <2>1, <2>2, <2>3, ExtensionAssumption DEF Stored
<1> QED
  BY <1>2, <1>3

-----------------------------------------------------------------------------
\* The steps of the page.
LEMMA CallKeeps ==
  ASSUME ExtInv, NEW i \in Ids, NEW r \in Requests, Call(i, r)
  PROVE  ExtInv'
<1> USE DEF Call, stored, manager, outcome
<1>1. /\ page[i] = "idle" /\ proc[i].at = "idle" /\ i \notin pending /\ i \notin signed \cup declined
      /\ UNCHANGED <<kv, popup, reply, pending, signed, declined>>
  BY DEF ExtInv, AnswersFollow
<1>2. /\ page' = [j \in Ids |-> page'[j]] /\ req' = [j \in Ids |-> req'[j]] /\ proc' = [j \in Ids |-> proc'[j]]
      /\ \A j \in Ids : proc'[j] = IF j = i THEN At("route") ELSE proc[j]
      /\ \A j \in Ids : page'[j] = IF j = i THEN "waiting" ELSE page[j]
      /\ \A j \in Ids : req'[j] = IF j = i THEN r ELSE req[j]
  BY DEF ExtInv
<1>3. At("route").at = "route" /\ Handler(At("route"))
  BY StoredEmpty DEF At, Handler
<1>4. AnswersFollow'
  BY <1>1, <1>2, <1>3 DEF ExtInv, AnswersFollow
<1>5. DeclinedNeverSigned'
  BY <1>1, <1>2 DEF ExtInv, DeclinedNeverSigned
<1>6. \A j \in Ids : Handler(proc'[j])
  BY <1>2, <1>3 DEF ExtInv
<1> QED
  BY <1>1, <1>2, <1>4, <1>5, <1>6 DEF ExtInv

\* An answer or the page's timer settles a call that waits.
LEMMA SettlingKeeps ==
  ASSUME ExtInv, NEW i \in Ids, Deliver(i) \/ PageTimeout(i)
  PROVE  ExtInv'
<1>1. /\ page[i] = "waiting" /\ (\E a : a # "idle" /\ page' = [page EXCEPT ![i] = a])
      /\ UNCHANGED <<kv, popup, req, reply, proc, pending, signed, declined>>
  BY DEF Deliver, PageTimeout, stored, manager, outcome, ExtInv
<1>2. /\ page' = [j \in Ids |-> page'[j]]
      /\ \A j \in Ids : page[j] = "idle" <=> page'[j] = "idle"
  BY <1>1 DEF ExtInv
<1>3. AnswersFollow'
  BY <1>1, <1>2 DEF ExtInv, AnswersFollow
<1>4. DeclinedNeverSigned'
  BY <1>1 DEF ExtInv, DeclinedNeverSigned
<1>5. (\A j \in Ids : Handler(proc'[j])) /\ (\A r \in popup' : Stored(r.snap))
  BY <1>1 DEF ExtInv
<1> QED
  BY <1>1, <1>2, <1>3, <1>4, <1>5 DEF ExtInv

\* One handler moves on, its request answered or not, and the stored state may
\* be written.
LEMMA HandlerMoves ==
  ASSUME ExtInv, NEW i \in Ids, NEW p, Handler(p), p.at # "asked",
         proc[i].at # "idle", proc[i].at # "done", proc' = [proc EXCEPT ![i] = p],
         UNCHANGED <<req, page, popup>>, Stored(kv'), \A j \in Ids : reply'[j] # "idle",
         pending' \in SUBSET pending, i \notin pending',
         signed' \in SUBSET (signed \cup {i}), declined' \in SUBSET (declined \cup {i}),
         i \notin signed' \cap declined', i \in signed' \cup declined' => p.at = "done",
         i \in signed' => (req[i].method = "sign_transaction" => Listed(req[i].tx) # {})
  PROVE  ExtInv'
<1>1. /\ proc' = [j \in Ids |-> proc'[j]]
      /\ \A j \in Ids : proc'[j] = IF j = i THEN p ELSE proc[j]
  BY DEF ExtInv
<1>2. page[i] # "idle" /\ i \notin signed \cup declined
  BY DEF ExtInv, AnswersFollow
<1>3. AnswersFollow'
  BY <1>1, <1>2 DEF ExtInv, AnswersFollow
<1>4. DeclinedNeverSigned'
  BY DEF ExtInv, DeclinedNeverSigned
<1>5. \A j \in Ids : Handler(proc'[j])
  BY <1>1 DEF ExtInv
<1>6. \A r \in popup' : Stored(r.snap)
  BY DEF ExtInv
<1> QED
  BY <1>1, <1>3, <1>4, <1>5, <1>6 DEF ExtInv

LEMMA LoadedStored == ASSUME ExtInv, NEW s \in {kv, Empty} PROVE Stored(s)
  BY StoredEmpty DEF ExtInv

LEMMA AtHandler == ASSUME NEW l PROVE Handler(At(l)) /\ At(l).at = l
  BY StoredEmpty DEF At, Handler

LEMMA ReplyKeeps ==
  ASSUME ExtInv, NEW S, NEW r, r # "idle", Reply(S, r)
  PROVE  \A j \in Ids : reply'[j] # "idle"
  BY DEF ExtInv, Reply

\* A handler that is neither asked for, idle nor done holds no place in the queue.
LEMMA HandlerOfQueue ==
  ASSUME ExtInv, NEW i \in Ids, proc[i].at # "asked"
  PROVE  i \notin pending /\ (proc[i].at # "done" => i \notin signed \cup declined)
  BY DEF ExtInv, AnswersFollow

LEMMA RouteKeeps ==
  ASSUME ExtInv, NEW i \in Ids, Route(i)
  PROVE  ExtInv'
<1>1. PICK s \in {kv, Empty} :
        /\ proc[i].at = "route" /\ UNCHANGED <<linked, stored, req, page>>
        /\ LET d == RouteDecision(req[i], s) IN
           \/ /\ d \in {"ok", "error"} /\ Reply({i}, d)
              /\ proc' = [proc EXCEPT ![i] = At("done")] /\ UNCHANGED <<manager, outcome>>
           \/ /\ d = "revoke" /\ proc' = [proc EXCEPT ![i] = [At("revoke") EXCEPT !.wallet = s.wallet]]
              /\ UNCHANGED <<reply, manager, outcome>>
           \/ /\ d = "ask" /\ ~linked /\ Reply({i}, "error")
              /\ proc' = [proc EXCEPT ![i] = At("done")] /\ UNCHANGED <<manager, outcome>>
           \/ /\ d = "ask" /\ linked
              /\ Reply(Superseded(i), "rejected") /\ declined' = declined \cup Superseded(i)
              /\ proc' = [j \in Ids |-> IF j = i THEN At("asked") ELSE IF j \in Superseded(i) THEN At("done") ELSE proc[j]]
              /\ pending' = (pending \ Superseded(i)) \cup {i} /\ window' = TRUE
              /\ UNCHANGED <<inFlight, signed>>
  BY DEF Route
<1> DEFINE d == RouteDecision(req[i], s)
<1>2. /\ UNCHANGED <<kv, popup, req, page>> /\ Stored(kv') /\ Stored(s)
      /\ i \notin pending /\ i \notin signed \cup declined
  BY <1>1, HandlerOfQueue, LoadedStored DEF stored, ExtInv
<1>3. CASE d \in {"ok", "error"} /\ Reply({i}, d) /\ proc' = [proc EXCEPT ![i] = At("done")] /\ UNCHANGED <<manager, outcome>>
  <2>1. UNCHANGED <<pending, signed, declined>>
    BY <1>3 DEF manager, outcome
  <2>2. \A j \in Ids : reply'[j] # "idle"
    BY <1>3, ReplyKeeps
  <2> QED
    BY <1>1, <1>2, <1>3, <2>1, <2>2, AtHandler, HandlerMoves
<1>4. CASE proc' = [proc EXCEPT ![i] = [At("revoke") EXCEPT !.wallet = s.wallet]] /\ UNCHANGED <<reply, manager, outcome>>
  <2>1. UNCHANGED <<pending, signed, declined>> /\ \A j \in Ids : reply'[j] # "idle"
    BY <1>4 DEF manager, outcome, ExtInv
  <2>2. [At("revoke") EXCEPT !.wallet = s.wallet] = [at |-> "revoke", wallet |-> s.wallet, snap |-> Empty]
    BY DEF At
  <2>3. Handler([at |-> "revoke", wallet |-> s.wallet, snap |-> Empty])
    BY StoredEmpty DEF Handler
  <2> QED
    BY <1>1, <1>2, <1>4, <2>1, <2>2, <2>3, HandlerMoves
<1>5. CASE Reply({i}, "error") /\ proc' = [proc EXCEPT ![i] = At("done")] /\ UNCHANGED <<manager, outcome>>
  <2>1. UNCHANGED <<pending, signed, declined>>
    BY <1>5 DEF manager, outcome
  <2>2. \A j \in Ids : reply'[j] # "idle"
    BY <1>5, ReplyKeeps
  <2> QED
    BY <1>1, <1>2, <1>5, <2>1, <2>2, AtHandler, HandlerMoves
<1>6. CASE /\ Reply(Superseded(i), "rejected") /\ declined' = declined \cup Superseded(i)
           /\ proc' = [j \in Ids |-> IF j = i THEN At("asked") ELSE IF j \in Superseded(i) THEN At("done") ELSE proc[j]]
           /\ pending' = (pending \ Superseded(i)) \cup {i} /\ UNCHANGED <<inFlight, signed>> /\ d = "ask"
  <2>0. req[i].method \in {"pair", "connect"} \cup Signs
    BY <1>6 DEF RouteDecision
  <2>1. \A j \in Ids : reply'[j] # "idle"
    BY <1>6, ReplyKeeps
  <2>2. /\ Superseded(i) \subseteq pending /\ i \notin Superseded(i)
        /\ \A j \in Superseded(i) : proc[j].at = "asked" /\ j \in Ids /\ j \notin signed
    BY <1>2 DEF Superseded, ExtInv, AnswersFollow
  <2>3. AnswersFollow'
    <3>1. \A j \in Ids : page[j] = "idle" => j # i /\ j \notin Superseded(i)
      BY <1>1, <2>2 DEF ExtInv, AnswersFollow
    <3> QED
      BY <1>2, <1>6, <2>0, <2>2, <3>1, AtHandler DEF ExtInv, AnswersFollow
  <2>4. DeclinedNeverSigned'
    BY <1>2, <1>6, <2>2 DEF ExtInv, DeclinedNeverSigned
  <2>5. (\A j \in Ids : Handler(proc'[j])) /\ (\A r \in popup' : Stored(r.snap)) /\ proc' = [j \in Ids |-> proc'[j]]
    BY <1>2, <1>6, AtHandler DEF ExtInv
  <2> QED
    BY <1>2, <1>6, <2>1, <2>2, <2>3, <2>4, <2>5 DEF ExtInv
<1> QED
  BY <1>1, <1>3, <1>4, <1>5, <1>6

LEMMA ApproveKeeps ==
  ASSUME ExtInv, NEW i \in Ids, Approve(i)
  PROVE  ExtInv'
<1>1. /\ proc[i].at = "asked" /\ i \notin signed \cup declined
      /\ UNCHANGED <<req, page, popup, reply, signed, declined>>
      /\ Stored(kv') /\ pending' = pending \ {i}
  BY DEF ExtInv, AnswersFollow, Approve, StartResolving, stored, outcome
<1>2. \E l : l # "asked" /\ proc' = [proc EXCEPT ![i] = At(l)]
  <2>1. req[i].method \in {"pair", "connect"} \cup Signs
    BY <1>1 DEF ExtInv, AnswersFollow
  <2> QED
    BY <2>1 DEF Approve, Signs
<1> QED
  BY <1>1, <1>2, AtHandler, HandlerMoves DEF ExtInv

LEMMA RejectKeeps ==
  ASSUME ExtInv, NEW i \in Ids, Reject(i)
  PROVE  ExtInv'
<1>1. /\ proc[i].at = "asked" /\ i \notin signed \cup declined
      /\ UNCHANGED <<req, page, popup, signed>> /\ declined' = declined \cup {i}
      /\ Stored(kv') /\ pending' = pending \ {i} /\ Reply({i}, "rejected")
      /\ proc' = [proc EXCEPT ![i] = At("done")]
  BY DEF ExtInv, AnswersFollow, Reject, stored
<1>2. \A j \in Ids : reply'[j] # "idle"
  BY <1>1, ReplyKeeps
<1> QED
  BY <1>1, <1>2, AtHandler, HandlerMoves DEF ExtInv

\* Requests leave the queue refused.
LEMMA RefusedTogether ==
  ASSUME ExtInv, NEW gone \in SUBSET pending, UNCHANGED <<kv, popup, req, page, signed>>,
         pending' = pending \ gone, declined' = declined \cup gone, Reply(gone, "rejected"),
         proc' = [i \in Ids |-> IF i \in gone THEN At("done") ELSE proc[i]]
  PROVE  ExtInv'
<1>1. \A j \in Ids : reply'[j] # "idle"
  BY ReplyKeeps
<1>2. \A j \in gone : proc[j].at = "asked" /\ j \in Ids /\ j \notin signed
  BY DEF ExtInv, AnswersFollow
<1>3. AnswersFollow'
  BY <1>2, AtHandler DEF ExtInv, AnswersFollow
<1>4. DeclinedNeverSigned'
  BY <1>2 DEF ExtInv, DeclinedNeverSigned
<1>5. (\A j \in Ids : Handler(proc'[j])) /\ (\A r \in popup' : Stored(r.snap)) /\ proc' = [j \in Ids |-> proc'[j]]
  BY AtHandler DEF ExtInv
<1> QED
  BY <1>1, <1>2, <1>3, <1>4, <1>5 DEF ExtInv

LEMMA TabRemovedKeeps ==
  ASSUME ExtInv, NEW t, TabRemoved(t)
  PROVE  ExtInv'
<1> DEFINE gone == {i \in pending : req[i].tab = t}
<1>1. /\ gone \in SUBSET pending /\ UNCHANGED <<kv, popup, req, page, signed>>
      /\ pending' = pending \ gone /\ declined' = declined \cup gone /\ Reply(gone, "rejected")
      /\ proc' = [i \in Ids |-> IF i \in gone THEN At("done") ELSE proc[i]]
  BY DEF TabRemoved, stored
<1> HIDE DEF gone
<1> QED
  BY <1>1, RefusedTogether

LEMMA HandlerExcept ==
  ASSUME NEW q, q = [at |-> q.at, wallet |-> q.wallet, snap |-> q.snap], NEW to
  PROVE  [q EXCEPT !.at = to] = [at |-> to, wallet |-> q.wallet, snap |-> q.snap]
<1> DEFINE A == {q.at, to}  W == {q.wallet}  S == {q.snap}
<1>1. q \in [at : A, wallet : W, snap : S] /\ to \in A
  OBVIOUS
<1> HIDE DEF A, W, S
<1> QED
  BY <1>1

LEMMA SnapKeeps ==
  ASSUME ExtInv, NEW i \in Ids, Snap(i)
  PROVE  ExtInv'
<1>1. PICK from \in {"pair", "grant", "revoke"}, to \in {"pairing", "granting", "revoking"} : SnapTo(i, from, to)
  BY DEF Snap
<1>2. PICK s \in {kv, Empty} :
        /\ proc[i].at = from /\ proc' = [proc EXCEPT ![i] = [at |-> to, wallet |-> @.wallet, snap |-> s]]
        /\ UNCHANGED <<linked, stored, req, page, reply, manager, outcome>>
  BY <1>1 DEF SnapTo
<1> DEFINE p == [at |-> to, wallet |-> proc[i].wallet, snap |-> s]
<1>3. Handler(p) /\ p.at # "asked"
  BY <1>1, LoadedStored DEF Handler
<1>4. proc' = [proc EXCEPT ![i] = p]
  BY <1>2
<1>5. /\ UNCHANGED <<req, page, popup, pending, signed, declined>> /\ Stored(kv')
      /\ i \notin pending /\ i \notin signed \cup declined /\ \A j \in Ids : reply'[j] # "idle"
  BY <1>1, <1>2, HandlerOfQueue DEF stored, manager, outcome, ExtInv
<1> HIDE DEF p
<1> QED
  BY <1>1, <1>2, <1>3, <1>4, <1>5, HandlerMoves

\* A handler answers and is done, with the stored state as it was or as written.
LEMMA HandlerEnds ==
  ASSUME ExtInv, NEW i \in Ids, proc[i].at \notin {"idle", "done", "asked"}, proc' = [proc EXCEPT ![i] = At("done")],
         UNCHANGED <<req, page, popup, pending, signed, declined>>, Stored(kv'),
         NEW r, r # "idle", Reply({i}, r) \/ UNCHANGED reply
  PROVE  ExtInv'
<1>1. i \notin pending /\ i \notin signed \cup declined
  BY HandlerOfQueue
<1>2. \A j \in Ids : reply'[j] # "idle"
  BY ReplyKeeps DEF ExtInv
<1> QED
  BY <1>1, <1>2, AtHandler, HandlerMoves

\* A handler goes on, nobody being answered yet.
LEMMA HandlerGoesOn ==
  ASSUME ExtInv, NEW i \in Ids, proc[i].at \notin {"idle", "done", "asked"}, NEW p, Handler(p), p.at # "asked",
         proc' = [proc EXCEPT ![i] = p], UNCHANGED <<req, page, popup, reply, pending, signed, declined>>, Stored(kv')
  PROVE  ExtInv'
<1>1. i \notin pending /\ i \notin signed \cup declined
  BY HandlerOfQueue
<1>2. \A j \in Ids : reply'[j] # "idle"
  BY DEF ExtInv
<1> QED
  BY <1>1, <1>2, HandlerMoves

LEMMA HandlerTo ==
  ASSUME ExtInv, NEW i \in Ids, NEW to, proc' = [proc EXCEPT ![i].at = to]
  PROVE  \E p : Handler(p) /\ p.at = to /\ proc' = [proc EXCEPT ![i] = p]
<1> DEFINE p == [at |-> to, wallet |-> proc[i].wallet, snap |-> proc[i].snap]
<1>1. Handler(proc[i])
  BY DEF ExtInv
<1>2. [proc[i] EXCEPT !.at = to] = p
  BY <1>1, HandlerExcept DEF Handler
<1>3. Handler(p) /\ p.at = to
  BY <1>1 DEF Handler
<1>4. proc' = [proc EXCEPT ![i] = [proc[i] EXCEPT !.at = to]]
  OBVIOUS
<1> HIDE DEF p
<1> QED
  BY <1>2, <1>3, <1>4

LEMMA PairSaveKeeps ==
  ASSUME ExtInv, NEW i \in Ids, PairSave(i)
  PROVE  ExtInv'
<1>1. proc[i].at = "pairing" /\ UNCHANGED <<req, page, popup, signed, declined>>
  BY DEF PairSave, outcome
<1>2. CASE Saved(Paired(req[i].wallet, proc[i].snap)) /\ proc' = [proc EXCEPT ![i].at = "key"] /\ UNCHANGED <<reply, manager>>
  <2>1. Stored(proc[i].snap)
    BY DEF ExtInv, Handler
  <2>2. Stored(Paired(req[i].wallet, proc[i].snap))
    <3> DEFINE h == IF proc[i].snap.wallet.address = req[i].wallet.address THEN proc[i].snap.grants ELSE {}
    <3>1. h \in SUBSET proc[i].snap.grants
      OBVIOUS
    <3> HIDE DEF h
    <3>2. Stored([wallet |-> req[i].wallet, grants |-> h])
      BY <2>1, <3>1, FewerOrigins
    <3> QED
      BY <3>2 DEF Paired, h
  <2>3. Stored(kv') /\ UNCHANGED <<pending, reply>>
    BY <1>2, <2>2 DEF Saved, manager
  <2>4. PICK p : Handler(p) /\ p.at = "key" /\ proc' = [proc EXCEPT ![i] = p]
    BY <1>2, HandlerTo
  <2> QED
    BY <1>1, <2>3, <2>4, HandlerGoesOn
<1>3. CASE SaveFails /\ Reply({i}, "error") /\ FinishResolving(i) /\ proc' = [proc EXCEPT ![i] = At("done")]
  <2>1. Stored(kv') /\ UNCHANGED pending
    BY <1>3 DEF SaveFails, FinishResolving, ExtInv
  <2> QED
    BY <1>1, <1>3, <2>1, HandlerEnds
<1> QED
  BY <1>2, <1>3 DEF PairSave

LEMMA EnsureDeviceKeyKeeps ==
  ASSUME ExtInv, NEW i \in Ids, EnsureDeviceKey(i)
  PROVE  ExtInv'
<1>1. proc[i].at = "key" /\ UNCHANGED <<req, page, popup, signed, declined>> /\ Stored(kv')
  BY DEF EnsureDeviceKey, outcome, stored, ExtInv
<1>2. CASE proc' = [proc EXCEPT ![i] = At("done")] /\ Reply({i}, "ok") /\ FinishResolving(i)
  <2>1. UNCHANGED pending
    BY <1>2 DEF FinishResolving
  <2> QED
    BY <1>1, <1>2, <2>1, HandlerEnds
<1>3. CASE proc' = [proc EXCEPT ![i].at = "keygen"] /\ UNCHANGED <<reply, manager>>
  <2>1. UNCHANGED <<pending, reply>>
    BY <1>3 DEF manager
  <2>2. PICK p : Handler(p) /\ p.at = "keygen" /\ proc' = [proc EXCEPT ![i] = p]
    BY <1>3, HandlerTo
  <2> QED
    BY <1>1, <2>1, <2>2, HandlerGoesOn
<1> QED
  BY <1>2, <1>3 DEF EnsureDeviceKey

LEMMA StoreDeviceKeyKeeps ==
  ASSUME ExtInv, NEW i \in Ids, StoreDeviceKey(i)
  PROVE  ExtInv'
<1>1. /\ proc[i].at = "keygen" /\ UNCHANGED <<req, page, popup, pending, signed, declined>> /\ Stored(kv')
      /\ proc' = [proc EXCEPT ![i] = At("done")] /\ Reply({i}, "ok")
  BY DEF StoreDeviceKey, FinishResolving, outcome, ExtInv
<1> QED
  BY <1>1, HandlerEnds

LEMMA ConnectWalletKeeps ==
  ASSUME ExtInv, NEW i \in Ids, ConnectWallet(i)
  PROVE  ExtInv'
<1>1. PICK s \in {kv, Empty} :
        /\ proc[i].at = "connect"
        /\ \/ /\ s.wallet = NoWallet /\ Reply({i}, "error") /\ FinishResolving(i)
              /\ proc' = [proc EXCEPT ![i] = At("done")]
           \/ /\ s.wallet # NoWallet /\ proc' = [proc EXCEPT ![i] = [At("grant") EXCEPT !.wallet = s.wallet]]
              /\ UNCHANGED <<reply, manager>>
        /\ UNCHANGED <<linked, stored, req, page, outcome>>
  BY DEF ConnectWallet
<1>2. UNCHANGED <<req, page, popup, signed, declined>> /\ Stored(kv')
  BY <1>1 DEF outcome, stored, ExtInv
<1>3. CASE Reply({i}, "error") /\ FinishResolving(i) /\ proc' = [proc EXCEPT ![i] = At("done")]
  <2>1. UNCHANGED pending
    BY <1>3 DEF FinishResolving
  <2> QED
    BY <1>1, <1>2, <1>3, <2>1, HandlerEnds
<1>4. CASE proc' = [proc EXCEPT ![i] = [At("grant") EXCEPT !.wallet = s.wallet]] /\ UNCHANGED <<reply, manager>>
  <2>1. UNCHANGED <<pending, reply>>
    BY <1>4 DEF manager
  <2>2. [At("grant") EXCEPT !.wallet = s.wallet] = [at |-> "grant", wallet |-> s.wallet, snap |-> Empty]
    BY DEF At
  <2>3. Handler([at |-> "grant", wallet |-> s.wallet, snap |-> Empty])
    BY StoredEmpty DEF Handler
  <2> QED
    BY <1>1, <1>2, <1>4, <2>1, <2>2, <2>3, HandlerGoesOn
<1> QED
  BY <1>1, <1>3, <1>4

LEMMA AddGrantKeeps ==
  ASSUME ExtInv, NEW i \in Ids, AddGrant(i)
  PROVE  ExtInv'
<1> DEFINE s == proc[i].snap  w == proc[i].wallet  o == req[i].origin
           g == [origin |-> o, network |-> w.network, account |-> w.address]
           h == {x \in s.grants : x.origin # o \/ x.network # w.network} \cup {g}
<1>1. /\ proc[i].at = "granting" /\ UNCHANGED <<req, page, popup, pending, signed, declined>>
      /\ proc' = [proc EXCEPT ![i] = At("done")]
  BY DEF AddGrant, outcome, manager
<1>2. Stored(s)
  BY DEF ExtInv, Handler
<1>3. CASE Reply({i}, "error") /\ UNCHANGED <<kv, faults>>
  BY <1>1, <1>3, HandlerEnds DEF ExtInv
<1>4. CASE ~OverLimit(s, o) /\ Reply({i}, "ok") /\ Saved([s EXCEPT !.grants = h])
  <2>1. Stored([s EXCEPT !.grants = h])
    BY <1>2, <1>4, GrantWithinLimit
  <2>2. Stored(kv')
    BY <1>4, <2>1 DEF Saved
  <2> QED
    BY <1>1, <1>4, <2>2, HandlerEnds
<1>5. CASE SaveFails /\ UNCHANGED reply
  BY <1>1, <1>5, HandlerEnds DEF ExtInv, SaveFails
<1> QED
  BY <1>3, <1>4, <1>5 DEF AddGrant

LEMMA RevokeSaveStored ==
  ASSUME ExtInv, NEW s, Stored(s), NEW o, NEW n, RevokeSave(s, o, n)
  PROVE  Stored(kv')
<1> DEFINE h == {x \in s.grants : x.origin # o \/ x.network # n}
<1>1. h \in SUBSET s.grants
  OBVIOUS
<1> HIDE DEF h
<1>2. Stored([s EXCEPT !.grants = h])
  BY <1>1, FewerOrigins
<1>3. Stored(Without(s, o, n))
  BY <1>2 DEF Without, h
<1> QED
  BY <1>3 DEF RevokeSave, Saved, ExtInv

LEMMA RevokeKeeps ==
  ASSUME ExtInv, NEW i \in Ids, Revoke(i)
  PROVE  ExtInv'
<1>1. /\ proc[i].at = "revoking" /\ UNCHANGED <<req, page, popup, pending, signed, declined>>
      /\ proc' = [proc EXCEPT ![i] = At("done")]
  BY DEF Revoke, outcome, manager
<1>2. Stored(proc[i].snap)
  BY DEF ExtInv, Handler
<1>3. CASE RevokeSave(proc[i].snap, req[i].origin, proc[i].wallet.network) /\ Reply({i}, "ok")
  <2>1. Stored(kv')
    BY <1>2, <1>3, RevokeSaveStored
  <2> QED
    BY <1>1, <1>3, <2>1, HandlerEnds
<1>4. CASE SaveFails /\ Reply({i}, "error")
  <2>1. Stored(kv')
    BY <1>4 DEF SaveFails, ExtInv
  <2> QED
    BY <1>1, <1>4, <2>1, HandlerEnds
<1> QED
  BY <1>3, <1>4 DEF Revoke

\* What the signer can sign the screen could list.
LEMMA SignsListed ==
  ASSUME NEW tx0 \in Transactions, SignsTx(tx0)
  PROVE  Listed(tx0) # {}
  BY DEF Transactions, SignsTx, Decodes, Listed

LEMMA SignKeeps ==
  ASSUME ExtInv, NEW i \in Ids, Sign(i)
  PROVE  ExtInv'
<1>1. PICK s \in {kv, Empty}, connected \in BOOLEAN :
        /\ proc[i].at = "sign" /\ proc' = [proc EXCEPT ![i] = At("done")]
        /\ LET able == s.wallet # NoWallet /\ key # NoKey /\ Signable(req[i], s.wallet, connected)
           IN /\ Reply({i}, IF able THEN "ok" ELSE "error")
              /\ signed' = IF able THEN signed \cup {i} ELSE signed
        /\ FinishResolving(i)
        /\ UNCHANGED <<linked, stored, req, page, declined>>
  BY DEF Sign
<1> DEFINE able == s.wallet # NoWallet /\ key # NoKey /\ Signable(req[i], s.wallet, connected)
<1>2. i \notin pending /\ i \notin signed \cup declined /\ page[i] # "idle" /\ req[i] \in Requests
  BY <1>1, HandlerOfQueue DEF ExtInv, AnswersFollow
<1>3. \A j \in Ids : reply'[j] # "idle"
  BY <1>1, ReplyKeeps
<1>4. able => (req[i].method = "sign_transaction" => Listed(req[i].tx) # {})
  BY <1>2, ExtensionAssumption, SignsListed DEF Signable
<1>5. UNCHANGED <<req, page, popup, pending, declined>> /\ Stored(kv')
  BY <1>1 DEF FinishResolving, stored, ExtInv
<1>6. /\ signed' \in SUBSET (signed \cup {i}) /\ declined' \in SUBSET (declined \cup {i})
      /\ i \notin signed' \cap declined'
      /\ (i \in signed' => (req[i].method = "sign_transaction" => Listed(req[i].tx) # {}))
  BY <1>1, <1>2, <1>4, <1>5
<1> QED
  BY <1>1, <1>2, <1>3, <1>5, <1>6, AtHandler, HandlerMoves

LEMMA PopupKeeps ==
  ASSUME ExtInv, (\E g \in kv.grants : PopupRevoke(g)) \/ (\E r \in popup : PopupSave(r))
  PROVE  ExtInv'
<1>1. UNCHANGED <<req, page, reply, proc, pending, signed, declined>>
  BY DEF PopupRevoke, PopupSave, manager, outcome
<1>2. Stored(kv') /\ \A r \in popup' : Stored(r.snap)
  <2>1. CASE \E g \in kv.grants : PopupRevoke(g)
    BY <2>1 DEF PopupRevoke, ExtInv
  <2>2. CASE \E r \in popup : PopupSave(r)
    <3>1. PICK r \in popup : RevokeSave(r.snap, r.grant.origin, r.grant.network) /\ popup' = {}
      BY <2>2 DEF PopupSave
    <3>2. Stored(r.snap)
      BY DEF ExtInv
    <3> QED
      BY <3>1, <3>2, RevokeSaveStored
  <2> QED
    BY <2>1, <2>2
<1>3. AnswersFollow' /\ DeclinedNeverSigned'
  BY <1>1 DEF ExtInv, AnswersFollow, DeclinedNeverSigned
<1> QED
  BY <1>1, <1>2, <1>3 DEF ExtInv

LEMMA RestartKeeps ==
  ASSUME ExtInv, WindowRemoved \/ Restart
  PROVE  ExtInv'
<1>1. CASE WindowRemoved
  <2>1. UNCHANGED <<kv, popup, req, page, reply, proc, pending, signed, declined>>
    BY <1>1 DEF WindowRemoved, stored, outcome
  <2>2. AnswersFollow' /\ DeclinedNeverSigned'
    BY <2>1 DEF ExtInv, AnswersFollow, DeclinedNeverSigned
  <2> QED
    BY <2>1, <2>2 DEF ExtInv
<1>2. CASE Restart
  <2>1. /\ UNCHANGED <<kv, popup, req, page, signed, declined>> /\ pending' = {}
        /\ Reply({i \in Ids : page[i] # "idle"}, "error")
        /\ proc' = [i \in Ids |-> IF page[i] = "idle" THEN proc[i] ELSE At("done")]
    BY <1>2 DEF Restart, stored, outcome
  <2>2. \A j \in Ids : reply'[j] # "idle"
    BY <2>1, ReplyKeeps
  <2>3. AnswersFollow'
    BY <2>1, AtHandler DEF ExtInv, AnswersFollow
  <2>4. DeclinedNeverSigned' /\ \A r \in popup' : Stored(r.snap)
    BY <2>1 DEF ExtInv, DeclinedNeverSigned
  <2>5. (\A j \in Ids : Handler(proc'[j])) /\ proc' = [j \in Ids |-> proc'[j]]
    BY <2>1, AtHandler DEF ExtInv
  <2> QED
    BY <2>1, <2>2, <2>3, <2>4, <2>5 DEF ExtInv
<1> QED
  BY <1>1, <1>2

LEMMA ExtNextKeeps == ExtInv /\ ExtNext => ExtInv'
<1> SUFFICES ASSUME ExtInv, ExtNext PROVE ExtInv'
  OBVIOUS
<1>1. ASSUME NEW i \in Ids, NEW r \in Requests, Call(i, r) PROVE ExtInv'
  BY <1>1, CallKeeps
<1>2. ASSUME NEW i \in Ids, Deliver(i) \/ PageTimeout(i) \/ Route(i) \/ Approve(i) \/ Reject(i) PROVE ExtInv'
  BY <1>2, SettlingKeeps, RouteKeeps, ApproveKeeps, RejectKeeps
<1>3. ASSUME NEW i \in Ids, Snap(i) \/ PairSave(i) \/ EnsureDeviceKey(i) \/ StoreDeviceKey(i) \/ ConnectWallet(i)
      PROVE  ExtInv'
  BY <1>3, SnapKeeps, PairSaveKeeps, EnsureDeviceKeyKeeps, StoreDeviceKeyKeeps, ConnectWalletKeeps
<1>4. ASSUME NEW i \in Ids, AddGrant(i) \/ Revoke(i) \/ Sign(i) PROVE ExtInv'
  BY <1>4, AddGrantKeeps, RevokeKeeps, SignKeeps
<1> QED
  BY <1>1, <1>2, <1>3, <1>4, TabRemovedKeeps, PopupKeeps, RestartKeeps DEF ExtNext

LEMMA ExtStarts == ExtInit => ExtInv
<1> SUFFICES ASSUME ExtInit PROVE ExtInv
  OBVIOUS
<1>1. Stored(kv) /\ popup = {}
  BY StoredEmpty, ExtensionAssumption DEF ExtInit, Stored
<1>2. (\A i \in Ids : Handler(proc[i]) /\ proc[i].at = "idle") /\ proc = [i \in Ids |-> proc[i]]
  BY AtHandler DEF ExtInit
<1>3. AnswersFollow /\ DeclinedNeverSigned
  BY <1>2 DEF ExtInit, AnswersFollow, DeclinedNeverSigned
<1> QED
  BY <1>1, <1>2, <1>3 DEF ExtInit, ExtInv

LEMMA ExtStep == ExtInv /\ [MCNext]_clientVars => ExtInv'
  BY FrameExt, ExtNextKeeps DEF MCNext, clientVars

\* No refused request is signed, whatever is signed could be read on the
\* approval screen, and the paired origins stay within their limit, for any
\* requests, stored states, restarts and interleavings of the handlers
\* (router.ts, background.ts, pair-origins.ts).
THEOREM ExtensionStaysSound == MCSpec => []ExtensionSound
<1>1. MCInit => ExtInv
  BY ExtStarts DEF MCInit
<1>2. ExtInv => ExtensionSound
  BY DEF ExtInv, Stored, ExtensionSound, OriginsBounded
<1> QED
  BY <1>1, <1>2, ExtStep, PTL DEF MCSpec

\* A page's call is settled once: no late answer of the worker replaces what
\* the page was told, a timeout included (transport.ts).
THEOREM CallsSettleOnce == MCSpec => SettledOnce
<1>1. MCInit => ExtInv
  BY ExtStarts DEF MCInit
<1>2. ASSUME ExtInv, ExtNext, NEW i \in Ids, page[i] \notin {"idle", "waiting"}
      PROVE  page'[i] = page[i]
  <2>1. ASSUME NEW j \in Ids, NEW r \in Requests, Call(j, r) PROVE page'[i] = page[i]
    BY <1>2, <2>1 DEF Call, ExtInv
  <2>2. ASSUME NEW j \in Ids, Deliver(j) \/ PageTimeout(j) PROVE page'[i] = page[i]
    BY <1>2, <2>2 DEF Deliver, PageTimeout, ExtInv
  <2>3. ASSUME NEW j \in Ids, Route(j) \/ Approve(j) \/ Reject(j) PROVE UNCHANGED page
    BY <2>3 DEF Route, Approve, Reject
  <2>4. ASSUME NEW j \in Ids,
               Snap(j) \/ PairSave(j) \/ EnsureDeviceKey(j) \/ StoreDeviceKey(j) \/ ConnectWallet(j)
        PROVE  UNCHANGED page
    BY <2>4 DEF Snap, SnapTo, PairSave, EnsureDeviceKey, StoreDeviceKey, ConnectWallet
  <2>5. ASSUME NEW j \in Ids, AddGrant(j) \/ Revoke(j) \/ Sign(j) PROVE UNCHANGED page
    BY <2>5 DEF AddGrant, Revoke, Sign
  <2>6. ASSUME (\E t \in {r.tab : r \in Requests} : TabRemoved(t)) \/ (\E g \in kv.grants : PopupRevoke(g))
               \/ (\E r \in popup : PopupSave(r)) \/ WindowRemoved \/ Restart
        PROVE  UNCHANGED page
    BY <2>6 DEF TabRemoved, PopupRevoke, PopupSave, WindowRemoved, Restart
  <2> QED
    BY <1>2, <2>1, <2>2, <2>3, <2>4, <2>5, <2>6 DEF ExtNext
<1>3. ExtInv /\ [MCNext]_clientVars => [\A i \in Ids : page[i] \notin {"idle", "waiting"} => page'[i] = page[i]]_page
  BY <1>2 DEF MCNext, clientVars, extVars
<1> QED
  BY <1>1, <1>3, ExtStep, PTL DEF MCSpec, SettledOnce

-----------------------------------------------------------------------------
(***************************************************************************)
(* Payment requests.                                                       *)
(***************************************************************************)
FetchShape(f) == f = [kind |-> f.kind, link |-> f.link, cancelled |-> f.cancelled, n |-> f.n]

\* What is still awaited, and not cancelled, is about the link the page has
\* open; an origin is the pinned one's once it was verified.
RequestInv ==
  /\ \A f \in fetches : FetchShape(f) /\ (~f.cancelled => f.link = raw /\ ParsePayUri(f.link))
  /\ trust # NoLink => trust = raw
  /\ intake.state = "ready" =>
       /\ intake.link = raw /\ ParsePayUri(raw)
       /\ intake.origin => raw.domain /\ raw.signedBy = pin
       /\ raw.domain => intake.origin

LEMMA FrameRequest == RequestInv /\ UNCHANGED <<raw, intake, trust, fetches, pin>> => RequestInv'
  BY DEF RequestInv, ParsePayUri, FetchShape, NoLink

LEMMA RequestVouchedHolds == RequestInv => RequestVouched
  BY DEF RequestInv, RequestVouched

\* The clean-up of the effects leaves nothing awaited that would still be shown.
LEMMA CancelledAll ==
  ASSUME RequestInv, NEW f \in Cancelled
  PROVE  FetchShape(f) /\ f.cancelled
<1>1. PICK g \in fetches : f = [g EXCEPT !.cancelled = TRUE]
  BY DEF Cancelled
<1> DEFINE K == {g.kind}  L == {g.link}  C == {g.cancelled, TRUE}  N == {g.n}
<1>2. g = [kind |-> g.kind, link |-> g.link, cancelled |-> g.cancelled, n |-> g.n]
  BY DEF RequestInv, FetchShape
<1>3. g.kind \in K /\ g.link \in L /\ g.cancelled \in C /\ g.n \in N /\ TRUE \in C
  OBVIOUS
<1>4. g \in [kind : K, link : L, cancelled : C, n : N]
  <2> HIDE DEF K, L, C, N
  <2> QED
    BY <1>2, <1>3
<1> HIDE DEF K, L, C, N
<1>5. f = [kind |-> g.kind, link |-> g.link, cancelled |-> TRUE, n |-> g.n]
  BY <1>1, <1>3, <1>4
<1> QED
  BY <1>5 DEF FetchShape

LEMMA OpenLinkKeeps ==
  ASSUME RequestInv, NEW l \in Links, OpenLink(l)
  PROVE  RequestInv'
<1>1. raw' = l /\ trust' = NoLink /\ intake'.state \in {"rejected", "verifying"}
  BY DEF OpenLink
<1>2. ASSUME NEW f \in fetches' PROVE FetchShape(f) /\ (~f.cancelled => f.link = raw' /\ ParsePayUri(f.link))
  <2>1. CASE f \in Cancelled
    BY <2>1, CancelledAll
  <2>2. CASE f \notin Cancelled
    <3>1. ParsePayUri(l) /\ f = [kind |-> "origin", link |-> l, cancelled |-> FALSE, n |-> opens]
      BY <2>2 DEF OpenLink
    <3> QED
      BY <1>1, <3>1 DEF FetchShape
  <2> QED
    BY <2>1, <2>2
<1> QED
  BY <1>1, <1>2 DEF RequestInv, ParsePayUri, FetchShape

LEMMA OriginAnswersKeeps ==
  ASSUME RequestInv, NEW f \in fetches, NEW loads \in BOOLEAN, OriginAnswers(f, loads)
  PROVE  RequestInv'
<1> DEFINE status == OriginStatus(f.link, loads)
           ready == ~f.cancelled /\ status # "invalid"
<1>1. /\ pin' = IF status = "verified" THEN published ELSE pin
      /\ intake' = IF f.cancelled THEN intake
                   ELSE [state |-> IF ready THEN "ready" ELSE "rejected", link |-> f.link, origin |-> status = "verified"]
      /\ fetches' = (fetches \ {f})
           \cup (IF ready /\ f.link.destination = "contract"
                 THEN {[kind |-> "trust", link |-> f.link, cancelled |-> FALSE, n |-> f.n]} ELSE {})
      /\ UNCHANGED <<raw, trust>>
  BY DEF OriginAnswers
<1>2. /\ status = "verified" => f.link.domain /\ pin \in {"none", published} /\ f.link.signedBy = published
      /\ status \in {"none", "invalid", "verified"}
      /\ f.link.domain => status # "none"
  BY DEF OriginStatus
<1> HIDE DEF status
<1>3. ASSUME NEW g \in fetches' PROVE FetchShape(g) /\ (~g.cancelled => g.link = raw' /\ ParsePayUri(g.link))
  <2>1. CASE g \in fetches
    BY <1>1, <2>1 DEF RequestInv
  <2>2. CASE g \notin fetches
    <3>1. ~f.cancelled /\ g = [kind |-> "trust", link |-> f.link, cancelled |-> FALSE, n |-> f.n]
      BY <1>1, <2>2
    <3> QED
      BY <1>1, <3>1 DEF RequestInv, FetchShape
  <2> QED
    BY <2>1, <2>2
<1>4. ASSUME intake'.state = "ready"
      PROVE  /\ intake'.link = raw' /\ ParsePayUri(raw')
             /\ intake'.origin => raw'.domain /\ raw'.signedBy = pin'
             /\ raw'.domain => intake'.origin
  <2>1. CASE f.cancelled
    <3>1. /\ intake.state = "ready" /\ intake.link = raw /\ ParsePayUri(raw) /\ intake' = intake /\ raw' = raw
          /\ intake.origin => raw.domain /\ raw.signedBy = pin
          /\ raw.domain => intake.origin
      BY <1>1, <1>4, <2>1 DEF RequestInv
    <3>2. CASE intake.origin
      <4>1. raw.signedBy # "none"
        BY <3>1, <3>2 DEF ParsePayUri
      <4>2. pin' = pin
        BY <1>1, <1>2, <3>1, <3>2, <4>1
      <4> QED
        BY <3>1, <4>2
    <3>3. CASE ~intake.origin
      BY <3>1, <3>3
    <3> QED
      BY <3>2, <3>3
  <2>2. CASE ~f.cancelled
    <3>1. f.link = raw /\ ParsePayUri(raw) /\ status # "invalid" /\ raw' = raw
      BY <1>1, <1>4, <2>2 DEF RequestInv
    <3>2. intake'.link = f.link /\ intake'.origin = (status = "verified")
      BY <1>1, <2>2
    <3> QED
      BY <1>1, <1>2, <3>1, <3>2
  <2> QED
    BY <2>1, <2>2
<1>5. trust' # NoLink => trust' = raw'
  BY <1>1 DEF RequestInv
<1>6. \A g \in fetches' : FetchShape(g) /\ (~g.cancelled => g.link = raw' /\ ParsePayUri(g.link))
  BY <1>3
<1> QED
  BY <1>4, <1>5, <1>6 DEF RequestInv, ParsePayUri, FetchShape

LEMMA TrustAnswersKeeps ==
  ASSUME RequestInv, NEW f \in fetches, TrustAnswers(f)
  PROVE  RequestInv'
<1>1. /\ fetches' = fetches \ {f} /\ UNCHANGED <<raw, intake, pin>>
      /\ trust' = IF f.cancelled THEN trust ELSE f.link
  BY DEF TrustAnswers
<1>2. trust' # NoLink => trust' = raw'
  BY <1>1 DEF RequestInv
<1> QED
  BY <1>1, <1>2 DEF RequestInv, ParsePayUri, FetchShape

LEMMA RequestNextKeeps == RequestInv /\ RequestNext => RequestInv'
<1> SUFFICES ASSUME RequestInv, RequestNext PROVE RequestInv'
  OBVIOUS
<1>1. ASSUME RotateKey \/ PreparePayment \/ ConfirmPayment \/ TrackPayment \/ SendAgain
      PROVE  UNCHANGED <<raw, intake, trust, fetches, pin>>
  BY <1>1 DEF RotateKey, PreparePayment, ConfirmPayment, TrackPayment, SendAgain, requestVars
<1> QED
  BY <1>1, FrameRequest, OpenLinkKeeps, OriginAnswersKeeps, TrustAnswersKeeps DEF RequestNext

LEMMA RequestStep == RequestInv /\ [MCNext]_clientVars => RequestInv'
<1> SUFFICES ASSUME RequestInv, [MCNext]_clientVars PROVE RequestInv'
  OBVIOUS
<1>1. ASSUME SwapNext PROVE UNCHANGED requestVars
  BY <1>1 DEF SwapNext, GetQuote, PrepareSwap, ConfirmSwap, CancelSwap, NetworkTakes, TrackSwap, MarketMoves, PayTick
<1>2. RequestNext \/ UNCHANGED requestVars
  BY <1>1 DEF MCNext, clientVars, payVars
<1> QED
  BY <1>2, RequestNextKeeps, FrameRequest DEF requestVars

LEMMA RequestStarts == PayInit => RequestInv
  BY DEF PayInit, RequestInv

\* The request a user can pay is the one the page has open, signed with the
\* pinned key of the domain it names, and the badge tells of that contract:
\* whatever is opened, rotated or answered late, for any links and keys
\* (sep7.ts, pay/page.tsx).
THEOREM RequestsAreVouched == MCSpec => []RequestVouched
<1>1. MCInit => RequestInv
  BY RequestStarts DEF MCInit
<1> QED
  BY <1>1, RequestStep, RequestVouchedHolds, PTL DEF MCSpec

-----------------------------------------------------------------------------
(***************************************************************************)
(* Swaps.                                                                  *)
(***************************************************************************)
ReviewShape(r) ==
  r = [minOut |-> r.minOut, quoted |-> r.quoted, path |-> r.path, deadline |-> r.deadline,
       signed |-> r.signed, told |-> r.told]

ReviewKept(r) ==
  /\ ReviewShape(r) /\ r.minOut = MinimumOut(r.quoted)
  /\ \A age \in r.signed : age <= QuoteTtl

\* The reviews are a sequence of kept ones; the network took each at most once,
\* at or above its minimum, and what was reported failed it had refused.
ReviewsInv ==
  /\ \E R : reviews \in Seq(R)
  /\ \A i \in DOMAIN reviews : ReviewKept(reviews[i])
NetworkInv ==
  /\ \A n \in network : n.id \in DOMAIN reviews /\ (n.out > 0 => n.out >= reviews[n.id].minOut)
  /\ \A m, n \in network : m.id = n.id => m = n
  /\ \A i \in DOMAIN reviews : reviews[i].told = "failed" => \E n \in network : n.id = i /\ n.out = 0
SwapInv ==
  /\ ReviewsInv /\ NetworkInv
  /\ swap.step \in {"review", "tracking"} => reviews # <<>>

LEMMA FrameSwap == SwapInv /\ UNCHANGED <<swap, reviews, network>> => SwapInv'
  BY DEF SwapInv, ReviewsInv, NetworkInv, ReviewKept, ReviewShape, MinimumOut

LEMMA SwapHolds == SwapInv => SwapAsReviewed
<1> SUFFICES ASSUME SwapInv PROVE SwapAsReviewed
  OBVIOUS
<1>1. \A i \in DOMAIN reviews : \A age \in reviews[i].signed : age <= QuoteTtl
  BY DEF SwapInv, ReviewsInv, ReviewKept
<1>2. ASSUME NEW n \in network, n.out > 0
      PROVE  n.out >= MinimumOut(reviews[n.id].quoted) /\ reviews[n.id].told # "failed"
  <2>1. n.id \in DOMAIN reviews /\ n.out >= reviews[n.id].minOut
    BY <1>2 DEF SwapInv, NetworkInv
  <2>2. reviews[n.id].minOut = MinimumOut(reviews[n.id].quoted)
    BY <2>1 DEF SwapInv, ReviewsInv, ReviewKept
  <2>3. ASSUME NEW m \in network, m.id = n.id PROVE m.out # 0
    <3>1. m = n
      BY <2>3 DEF SwapInv, NetworkInv
    <3> QED
      BY <1>2, <3>1
  <2> QED
    BY <2>1, <2>2, <2>3 DEF SwapInv, NetworkInv
<1> QED
  BY <1>1, <1>2 DEF SwapAsReviewed

\* A review keeps its terms, whatever is signed or told of it.
LEMMA ReviewSigned ==
  ASSUME NEW r, ReviewShape(r), NEW x
  PROVE  LET s == [r EXCEPT !.signed = x] IN
           ReviewShape(s) /\ s.signed = x /\ s.minOut = r.minOut /\ s.quoted = r.quoted /\ s.told = r.told
<1> DEFINE M == {r.minOut}  Q == {r.quoted}  P == {r.path}  D == {r.deadline}  S == {r.signed, x}  T == {r.told}
<1>1. r = [minOut |-> r.minOut, quoted |-> r.quoted, path |-> r.path, deadline |-> r.deadline,
           signed |-> r.signed, told |-> r.told]
  BY DEF ReviewShape
<1>2. r.minOut \in M /\ r.quoted \in Q /\ r.path \in P /\ r.deadline \in D /\ r.signed \in S /\ r.told \in T /\ x \in S
  OBVIOUS
<1> HIDE DEF M, Q, P, D, S, T
<1>3. r \in [minOut : M, quoted : Q, path : P, deadline : D, signed : S, told : T]
  BY <1>1, <1>2
<1> QED
  BY <1>2, <1>3 DEF ReviewShape

LEMMA ReviewTold ==
  ASSUME NEW r, ReviewShape(r), NEW x
  PROVE  LET s == [r EXCEPT !.told = x] IN
           ReviewShape(s) /\ s.told = x /\ s.minOut = r.minOut /\ s.quoted = r.quoted /\ s.signed = r.signed
<1> DEFINE M == {r.minOut}  Q == {r.quoted}  P == {r.path}  D == {r.deadline}  S == {r.signed}  T == {r.told, x}
<1>1. r = [minOut |-> r.minOut, quoted |-> r.quoted, path |-> r.path, deadline |-> r.deadline,
           signed |-> r.signed, told |-> r.told]
  BY DEF ReviewShape
<1>2. r.minOut \in M /\ r.quoted \in Q /\ r.path \in P /\ r.deadline \in D /\ r.signed \in S /\ r.told \in T /\ x \in T
  OBVIOUS
<1> HIDE DEF M, Q, P, D, S, T
<1>3. r \in [minOut : M, quoted : Q, path : P, deadline : D, signed : S, told : T]
  BY <1>1, <1>2
<1> QED
  BY <1>2, <1>3 DEF ReviewShape

LEMMA PrepareSwapKeeps == ASSUME SwapInv, PrepareSwap PROVE SwapInv'
<1>1. UNCHANGED network
  BY DEF PrepareSwap
<1>2. CASE reviews' = reviews /\ swap' = SwapForm
  BY <1>1, <1>2 DEF SwapForm, SwapInv, ReviewsInv, NetworkInv, ReviewKept, ReviewShape, MinimumOut
<1>3. CASE ~(reviews' = reviews /\ swap' = SwapForm)
  <2> DEFINE e == [minOut |-> MinimumOut(swap.quote.out), quoted |-> swap.quote.out, path |-> swap.quote.path,
                   deadline |-> payClock + SwapDeadline, signed |-> {}, told |-> "nothing"]
  <2>1. reviews' = Append(reviews, e)
    BY <1>3 DEF PrepareSwap
  <2>2. ReviewKept(e) /\ e.told = "nothing"
    BY DEF ReviewKept, ReviewShape
  <2>3. PICK R : reviews \in Seq(R)
    BY DEF SwapInv, ReviewsInv
  <2> HIDE DEF e
  <2>4. reviews \in Seq(R \cup {e})
    BY <2>3
  <2>5. /\ reviews' \in Seq(R \cup {e}) /\ reviews' # <<>>
        /\ DOMAIN reviews' = DOMAIN reviews \cup {Len(reviews) + 1} /\ Len(reviews) + 1 \notin DOMAIN reviews
        /\ (\A i \in DOMAIN reviews : reviews'[i] = reviews[i]) /\ reviews'[Len(reviews) + 1] = e
    BY <2>1, <2>4
  <2>6. ReviewsInv'
    BY <2>2, <2>5 DEF SwapInv, ReviewsInv, ReviewKept, ReviewShape, MinimumOut
  <2>7. NetworkInv'
    BY <1>1, <2>2, <2>5 DEF SwapInv, NetworkInv
  <2> QED
    BY <2>5, <2>6, <2>7 DEF SwapInv
<1> QED
  BY <1>2, <1>3

\* A step that replaces the review the panel is at by one of the same terms.
LEMMA ReviewReplaced ==
  ASSUME SwapInv, NEW e, reviews # <<>>, reviews' = [reviews EXCEPT ![Shown] = e], UNCHANGED network,
         ReviewKept(e), e.minOut = reviews[Shown].minOut,
         e.told = "failed" => \/ reviews[Shown].told = "failed"
                              \/ \E n \in network : n.id = Shown /\ n.out = 0
  PROVE  SwapInv'
<1>1. PICK R : reviews \in Seq(R)
  BY DEF SwapInv, ReviewsInv
<1>2. reviews \in Seq(R \cup {e}) /\ Shown \in DOMAIN reviews
  BY <1>1 DEF Shown
<1>3. /\ reviews' \in Seq(R \cup {e}) /\ DOMAIN reviews' = DOMAIN reviews /\ reviews' # <<>>
      /\ reviews'[Shown] = e /\ \A i \in DOMAIN reviews \ {Shown} : reviews'[i] = reviews[i]
  BY <1>2
<1>4. ReviewsInv'
  BY <1>2, <1>3 DEF SwapInv, ReviewsInv, ReviewKept, ReviewShape, MinimumOut
<1>5. NetworkInv'
  BY <1>2, <1>3 DEF SwapInv, NetworkInv
<1> QED
  BY <1>3, <1>4, <1>5 DEF SwapInv

LEMMA ConfirmSwapKeeps == ASSUME SwapInv, ConfirmSwap PROVE SwapInv'
<1>1. swap.step = "review" /\ reviews # <<>> /\ UNCHANGED network
  BY DEF ConfirmSwap, SwapInv
<1>2. CASE ~IsQuoteFresh(swap.quote)
  BY <1>1, <1>2 DEF ConfirmSwap, SwapForm, SwapInv, ReviewsInv, NetworkInv, ReviewKept, ReviewShape, MinimumOut
<1>3. CASE IsQuoteFresh(swap.quote)
  <2> DEFINE r == reviews[Shown]
             x == r.signed \cup {payClock - swap.quote.at}
             e == [r EXCEPT !.signed = x]
  <2>1. reviews' = [reviews EXCEPT ![Shown] = e]
    BY <1>3 DEF ConfirmSwap
  <2>2. ReviewKept(r)
    BY <1>1 DEF SwapInv, ReviewsInv, Shown
  <2>3. ReviewShape(e) /\ e.signed = x /\ e.minOut = r.minOut /\ e.quoted = r.quoted /\ e.told = r.told
    BY <2>2, ReviewSigned DEF ReviewKept
  <2>4. \A age \in x : age <= QuoteTtl
    BY <1>3, <2>2 DEF ReviewKept, IsQuoteFresh
  <2> HIDE DEF e, x
  <2>5. ReviewKept(e)
    BY <2>2, <2>3, <2>4 DEF ReviewKept
  <2> QED
    BY <1>1, <2>1, <2>3, <2>5, ReviewReplaced
<1> QED
  BY <1>2, <1>3

LEMMA NetworkTakesKeeps == ASSUME SwapInv, NEW i \in DOMAIN reviews, NetworkTakes(i) PROVE SwapInv'
<1>1. UNCHANGED <<swap, reviews>> /\ \A n \in network : n.id # i
  BY DEF NetworkTakes
<1>2. PICK o : /\ network' = network \cup {[id |-> i, out |-> o]}
               /\ o > 0 => o >= reviews[i].minOut
  BY DEF NetworkTakes
<1>3. ReviewsInv' /\ (swap.step \in {"review", "tracking"} => reviews # <<>>)'
  BY <1>1 DEF SwapInv, ReviewsInv, ReviewKept, ReviewShape, MinimumOut
<1>4. NetworkInv'
  BY <1>1, <1>2 DEF SwapInv, NetworkInv
<1> QED
  BY <1>3, <1>4 DEF SwapInv

LEMMA TrackSwapKeeps == ASSUME SwapInv, TrackSwap PROVE SwapInv'
<1>1. reviews # <<>> /\ UNCHANGED network
  BY DEF TrackSwap, SwapInv
<1>2. PICK x : /\ reviews' = [reviews EXCEPT ![Shown].told = x]
               /\ x = "failed" => \E n \in network : n.id = Shown /\ n.out = 0
  BY DEF TrackSwap
<1> DEFINE r == reviews[Shown]  e == [r EXCEPT !.told = x]
<1>3. reviews' = [reviews EXCEPT ![Shown] = e]
  BY <1>2
<1>4. ReviewKept(r)
  BY <1>1 DEF SwapInv, ReviewsInv, Shown
<1>5. ReviewShape(e) /\ e.told = x /\ e.minOut = r.minOut /\ e.quoted = r.quoted /\ e.signed = r.signed
  BY <1>4, ReviewTold DEF ReviewKept
<1> HIDE DEF e
<1>6. ReviewKept(e)
  BY <1>4, <1>5 DEF ReviewKept
<1> QED
  BY <1>1, <1>2, <1>3, <1>5, <1>6, ReviewReplaced

LEMMA SwapNextKeeps == SwapInv /\ SwapNext => SwapInv'
<1> SUFFICES ASSUME SwapInv, SwapNext PROVE SwapInv'
  OBVIOUS
<1>1. ASSUME NEW answered \in SUBSET Paths, GetQuote(answered) PROVE SwapInv'
  <2>1. UNCHANGED <<reviews, network>> /\ swap'.step \notin {"review", "tracking"}
    BY <1>1 DEF GetQuote
  <2> QED
    BY <2>1 DEF SwapInv, ReviewsInv, NetworkInv, ReviewKept, ReviewShape, MinimumOut
<1>2. ASSUME CancelSwap PROVE SwapInv'
  <2>1. UNCHANGED <<reviews, network>> /\ swap'.step \notin {"review", "tracking"}
    BY <1>2 DEF CancelSwap, SwapForm
  <2> QED
    BY <2>1 DEF SwapInv, ReviewsInv, NetworkInv, ReviewKept, ReviewShape, MinimumOut
<1>3. ASSUME MarketMoves \/ PayTick PROVE SwapInv'
  BY <1>3, FrameSwap DEF MarketMoves, PayTick
<1> QED
  BY <1>1, <1>2, <1>3, PrepareSwapKeeps, ConfirmSwapKeeps, NetworkTakesKeeps, TrackSwapKeeps DEF SwapNext

LEMMA SwapStep == SwapInv /\ [MCNext]_clientVars => SwapInv'
<1> SUFFICES ASSUME SwapInv, [MCNext]_clientVars PROVE SwapInv'
  OBVIOUS
<1>1. ASSUME RequestNext PROVE UNCHANGED swapVars
  BY <1>1 DEF RequestNext, OpenLink, OriginAnswers, TrustAnswers, RotateKey, PreparePayment, ConfirmPayment,
              TrackPayment, SendAgain
<1>2. SwapNext \/ UNCHANGED swapVars
  BY <1>1 DEF MCNext, clientVars, payVars
<1> QED
  BY <1>2, SwapNextKeeps, FrameSwap DEF swapVars

LEMMA SwapStarts == PayInit => SwapInv
<1>1. <<>> \in Seq({}) /\ DOMAIN <<>> = {}
  OBVIOUS
<1> QED
  BY <1>1 DEF PayInit, SwapForm, SwapInv, ReviewsInv, NetworkInv

\* A swap executes on the terms its review showed, of a quote that was fresh at
\* every signature, and one reported failed exchanged nothing: for any paths,
\* prices and tolerance, however often the user signs, gives up and waits
\* (quote.ts, swap-panel.tsx).
THEOREM SwapsAsReviewed == MCSpec => []SwapAsReviewed
<1>1. MCInit => SwapInv
  BY SwapStarts DEF MCInit
<1> QED
  BY <1>1, SwapStep, SwapHolds, PTL DEF MCSpec

-----------------------------------------------------------------------------
(***************************************************************************)
(* Agent keys and signers.                                                 *)
(***************************************************************************)
\* Where a run is tells what its user confirmed and what it submitted; an agent
\* key on the account was submitted by its run.
MintKept(m) ==
  /\ pc[m] \in {"none", "key", "policy", "confirm"} => seen[m] = {}
  /\ pc[m] \in {"attach", "add", "track"} => seen[m] = {config[m]}
  /\ pc[m] \in {"add", "track"} => tx[<<"attach", m>>] # "none"
  /\ tx[<<"add", m>>] # "none" =>
       pc[m] \in {"track", "done"} /\ seen[m] = {config[m]} /\ tx[<<"attach", m>>] # "none"
  /\ m \in signers => tx[<<"add", m>>] # "none"

CardTells(c) ==
  /\ card[c].step # "idle" => <<c, card[c].subject>> \in Txs
  /\ card[c].step = "done" => tx[<<c, card[c].subject>>] = "applied"

SignersInv ==
  /\ pc \in [Mints -> {"none", "key", "policy", "confirm", "attach", "add", "track", "done"}]
  /\ config = [m \in Mints |-> config[m]] /\ seen = [m \in Mints |-> seen[m]]
  /\ tx \in [Txs -> {"none", "pending", "applied", "failed"}]
  /\ card = [c \in Cards |-> card[c]]
  /\ asking # NoOne => asking \in Mints /\ pc[asking] = "confirm"
  /\ \A m \in Mints : MintKept(m)
  /\ \A c \in Cards : CardTells(c)

LEMMA FrameSigners ==
  SignersInv /\ UNCHANGED <<pc, config, seen, asking, tx, signers, card>> => SignersInv'
  BY DEF SignersInv, MintKept, CardTells

LEMMA SignersHold == SignersInv => PageTellsTheTruth
  BY DEF SignersInv, MintKept, CardTells, PageTellsTheTruth

LEMMA MintTxs == \A m \in Mints : <<"attach", m>> \in Txs /\ <<"add", m>> \in Txs
  BY DEF Txs

\* A transaction of one tag is none of another's.
LEMMA TxTags == \A a, b, x, y : <<a, x>> = <<b, y>> <=> a = b /\ x = y
  OBVIOUS

\* What a submission leaves of the other transactions.
LEMMA SubmittedMoves ==
  ASSUME SignersInv, NEW a, NEW x, Submitted(<<a, x>>)
  PROVE  /\ tx' \in [Txs -> {"none", "pending", "applied", "failed"}]
         /\ \A t \in Txs : t # <<a, x>> => tx'[t] = tx[t]
         /\ <<a, x>> \in Txs => tx'[<<a, x>>] = "pending"
         /\ \A t \in Txs : tx[t] # "none" => tx'[t] # "none"
  BY DEF Submitted, SignersInv

MintSteps == {"none", "key", "policy", "confirm", "attach", "add", "track", "done"}

\* What a step of one run has to show.
LEMMA MintMoves ==
  ASSUME SignersInv, NEW m \in Mints, NEW next \in MintSteps, Goto(m, next),
         UNCHANGED config \/ \E x : config' = [config EXCEPT ![m] = x],
         UNCHANGED seen \/ \E x : seen' = [seen EXCEPT ![m] = x],
         UNCHANGED tx \/ Submitted(<<"attach", m>>) \/ Submitted(<<"add", m>>),
         \/ asking' = asking /\ pc[m] # "confirm"
         \/ asking' = NoOne
         \/ asking' = m /\ next = "confirm",
         MintKept(m)', UNCHANGED <<signers, card>>
  PROVE  SignersInv'
<1>1. pc' \in [Mints -> MintSteps] /\ pc'[m] = next /\ \A k \in Mints \ {m} : pc'[k] = pc[k]
  BY DEF Goto, SignersInv, MintSteps
<1>2. /\ config' = [i \in Mints |-> config'[i]] /\ seen' = [i \in Mints |-> seen'[i]]
      /\ \A k \in Mints \ {m} : config'[k] = config[k] /\ seen'[k] = seen[k]
  BY DEF SignersInv
<1>3. /\ tx' \in [Txs -> {"none", "pending", "applied", "failed"}]
      /\ \A t \in Txs : t \notin {<<"attach", m>>, <<"add", m>>} => tx'[t] = tx[t]
  <2>1. CASE UNCHANGED tx
    BY <2>1 DEF SignersInv
  <2>2. CASE Submitted(<<"attach", m>>) \/ Submitted(<<"add", m>>)
    BY <2>2, SubmittedMoves
  <2> QED
    BY <2>1, <2>2
<1>4. ASSUME NEW k \in Mints \ {m} PROVE MintKept(k)'
  <2>1. tx'[<<"attach", k>>] = tx[<<"attach", k>>] /\ tx'[<<"add", k>>] = tx[<<"add", k>>]
    BY <1>3, MintTxs
  <2>2. MintKept(k)
    BY DEF SignersInv
  <2> QED
    BY <1>1, <1>2, <2>1, <2>2 DEF MintKept
<1>5. ASSUME NEW c \in Cards PROVE CardTells(c)'
  <2>1. CardTells(c) /\ <<c, card[c].subject>> \notin {<<"attach", m>>, <<"add", m>>}
    BY DEF SignersInv, Cards
  <2> QED
    BY <1>3, <2>1 DEF CardTells, Txs, Mints, Passkeys
<1>6. asking' # NoOne => asking' \in Mints /\ pc'[asking'] = "confirm"
  BY <1>1 DEF SignersInv
<1>7. card' = [c \in Cards |-> card'[c]]
  BY DEF SignersInv
<1>8. \A k \in Mints : MintKept(k)'
  BY <1>4
<1> QED
  BY <1>1, <1>2, <1>3, <1>5, <1>6, <1>7, <1>8 DEF SignersInv, MintSteps

LEMMA StartMintKeeps == ASSUME SignersInv, NEW m \in Mints, NEW c \in Configs, StartMint(m, c) PROVE SignersInv'
<1>1. /\ Goto(m, "key") /\ config' = [config EXCEPT ![m] = c] /\ UNCHANGED <<seen, asking, tx, signers, card>>
      /\ pc[m] = "none"
  BY DEF StartMint, accountVars, cardVars
<1>2. MintKept(m) /\ pc'[m] = "key"
  BY <1>1 DEF SignersInv, Goto
<1>3. MintKept(m)'
  BY <1>1, <1>2 DEF MintKept
<1> QED
  BY <1>1, <1>3, MintMoves DEF MintSteps

LEMMA KeyAndPolicyKeep ==
  ASSUME SignersInv, NEW m \in Mints, GenerateKey(m) \/ DeployInstance(m)
  PROVE  SignersInv'
<1>1. UNCHANGED <<config, seen, tx, signers, card>>
  BY DEF GenerateKey, DeployInstance, accountVars, cardVars
<1>2. \/ pc[m] = "key" /\ Goto(m, "policy") /\ asking' = asking
      \/ pc[m] = "policy" /\ Goto(m, "confirm") /\ asking' = m
  BY DEF GenerateKey, DeployInstance
<1>3. MintKept(m) /\ pc'[m] \in {"policy", "confirm"}
  BY <1>2 DEF SignersInv, Goto
<1>4. MintKept(m)'
  BY <1>1, <1>2, <1>3 DEF MintKept
<1> QED
  BY <1>1, <1>2, <1>4, MintMoves DEF MintSteps

LEMMA ConfirmDetailsKeeps == ASSUME SignersInv, NEW ok \in BOOLEAN, ConfirmDetails(ok) PROVE SignersInv'
<1>1. PICK m \in Mints : m = asking /\ m # NoOne /\ pc[m] = "confirm" /\ MintKept(m)
  BY DEF ConfirmDetails, SignersInv
<1>2. asking' = NoOne /\ UNCHANGED <<config, tx, signers, card>>
  BY DEF ConfirmDetails, accountVars, cardVars
<1>3. CASE ok
  <2>1. Goto(m, "attach") /\ seen' = [seen EXCEPT ![m] = @ \cup {config[m]}]
    BY <1>1, <1>3 DEF ConfirmDetails
  <2>2. pc'[m] = "attach" /\ seen'[m] = seen[m] \cup {config[m]}
    BY <1>1, <2>1 DEF SignersInv, Goto, ConfirmDetails
  <2>3. MintKept(m)'
    BY <1>1, <1>2, <2>2 DEF MintKept
  <2> QED
    BY <1>1, <1>2, <2>1, <2>2, <2>3, MintMoves DEF MintSteps
<1>4. CASE ~ok
  <2>1. Goto(m, "done") /\ UNCHANGED seen
    BY <1>1, <1>4 DEF ConfirmDetails
  <2>2. pc'[m] = "done"
    BY <1>1, <2>1 DEF SignersInv, Goto
  <2>3. MintKept(m)'
    BY <1>1, <1>2, <2>1, <2>2 DEF MintKept
  <2> QED
    BY <1>1, <1>2, <2>1, <2>3, MintMoves DEF MintSteps
<1> QED
  BY <1>3, <1>4

LEMMA SubmissionsKeep ==
  ASSUME SignersInv, NEW m \in Mints, AttachPolicy(m) \/ AddAgentKey(m)
  PROVE  SignersInv'
<1>1. UNCHANGED <<config, seen, asking, signers, card>>
  BY DEF AttachPolicy, AddAgentKey, cardVars
<1>2. \/ pc[m] = "attach" /\ Submitted(<<"attach", m>>) /\ Goto(m, "add")
      \/ pc[m] = "add" /\ Submitted(<<"add", m>>) /\ Goto(m, "track")
  BY DEF AttachPolicy, AddAgentKey
<1>3. MintKept(m)
  BY DEF SignersInv
<1>4. CASE pc[m] = "attach" /\ Submitted(<<"attach", m>>) /\ Goto(m, "add")
  <2>1. tx'[<<"attach", m>>] = "pending" /\ tx'[<<"add", m>>] = tx[<<"add", m>>] /\ pc'[m] = "add"
    BY <1>4, MintTxs, SubmittedMoves DEF SignersInv, Goto
  <2>2. MintKept(m)'
    BY <1>1, <1>3, <1>4, <2>1 DEF MintKept
  <2> QED
    BY <1>1, <1>4, <2>2, MintMoves DEF MintSteps
<1>5. CASE pc[m] = "add" /\ Submitted(<<"add", m>>) /\ Goto(m, "track")
  <2>1. tx'[<<"attach", m>>] = tx[<<"attach", m>>] /\ pc'[m] = "track"
    BY <1>5, MintTxs, SubmittedMoves DEF SignersInv, Goto
  <2>2. tx'[<<"add", m>>] # "none"
    BY <1>5, MintTxs, SubmittedMoves
  <2>3. MintKept(m)'
    BY <1>1, <1>3, <1>5, <2>1, <2>2 DEF MintKept
  <2> QED
    BY <1>1, <1>5, <2>3, MintMoves DEF MintSteps
<1> QED
  BY <1>2, <1>4, <1>5

LEMMA MintEndsKeep ==
  ASSUME SignersInv, NEW m \in Mints, ConfirmMint(m) \/ MintFails(m)
  PROVE  SignersInv'
<1>1. UNCHANGED <<config, seen, asking, signers, card>> /\ Goto(m, "done")
  BY DEF ConfirmMint, MintFails, cardVars, accountVars
<1>2. /\ pc[m] \in {"key", "policy", "attach", "add", "track"}
      /\ \/ UNCHANGED tx
         \/ pc[m] = "attach" /\ Submitted(<<"attach", m>>)
         \/ pc[m] = "add" /\ Submitted(<<"add", m>>)
  BY DEF ConfirmMint, MintFails, accountVars
<1>3. MintKept(m) /\ pc'[m] = "done"
  BY <1>1 DEF SignersInv, Goto
<1>4. CASE UNCHANGED tx
  <2>1. MintKept(m)'
    BY <1>1, <1>2, <1>3, <1>4 DEF MintKept
  <2> QED
    BY <1>1, <1>2, <1>4, <2>1, MintMoves DEF MintSteps
<1>5. CASE pc[m] = "attach" /\ Submitted(<<"attach", m>>)
  <2>1. tx'[<<"add", m>>] = tx[<<"add", m>>] /\ tx'[<<"attach", m>>] # "none"
    BY <1>5, MintTxs, SubmittedMoves
  <2>2. MintKept(m)'
    BY <1>1, <1>3, <1>5, <2>1 DEF MintKept
  <2> QED
    BY <1>1, <1>5, <2>2, MintMoves DEF MintSteps
<1>6. CASE pc[m] = "add" /\ Submitted(<<"add", m>>)
  <2>1. tx'[<<"attach", m>>] = tx[<<"attach", m>>]
    BY <1>6, MintTxs, SubmittedMoves
  <2>2. MintKept(m)'
    BY <1>1, <1>3, <1>6, <2>1 DEF MintKept
  <2> QED
    BY <1>1, <1>6, <2>2, MintMoves DEF MintSteps
<1> QED
  BY <1>2, <1>4, <1>5, <1>6

\* A transaction lands: nothing but its own state moves, and an agent key is
\* added by the transaction its run submitted.
LEMMA LandsKeeps == ASSUME SignersInv, NEW t \in Txs, Lands(t) PROVE SignersInv'
<1>1. UNCHANGED <<pc, config, seen, asking, card>>
  BY DEF Lands, mintVars, cardVars
<1>2. tx[t] = "pending" /\ tx' \in {[tx EXCEPT ![t] = "applied"], [tx EXCEPT ![t] = "failed"]}
  BY DEF Lands
<1>3. /\ tx' \in [Txs -> {"none", "pending", "applied", "failed"}]
      /\ \A s \in Txs : (tx[s] # "none" <=> tx'[s] # "none") /\ (tx[s] = "applied" => tx'[s] = "applied")
  BY <1>2 DEF SignersInv
<1>4. ASSUME NEW m \in Mints, m \in signers' PROVE tx[<<"add", m>>] # "none"
  <2>1. CASE m \in signers
    BY <2>1 DEF SignersInv, MintKept
  <2>2. CASE m \notin signers
    <3>1. t[1] \in {"add", "passkey"} /\ t[2] = m
      BY <1>4, <2>2 DEF Lands
    <3>2. \/ t[1] = "add" /\ t = <<"add", t[2]>>
          \/ t[1] = "passkey" /\ t[2] \in Spares
      BY <3>1 DEF Txs
    <3>3. t = <<"add", m>>
      BY <3>1, <3>2, WebSignersAssumption DEF Passkeys
    <3> QED
      BY <1>2, <3>3
  <2> QED
    BY <2>1, <2>2
<1>5. ASSUME NEW m \in Mints PROVE MintKept(m)'
  <2>1. MintKept(m) /\ <<"attach", m>> \in Txs /\ <<"add", m>> \in Txs
    BY MintTxs DEF SignersInv
  <2>2. tx'[<<"attach", m>>] # "none" <=> tx[<<"attach", m>>] # "none"
    BY <1>3, <2>1
  <2>3. tx'[<<"add", m>>] # "none" <=> tx[<<"add", m>>] # "none"
    BY <1>3, <2>1
  <2> QED
    BY <1>1, <1>4, <2>1, <2>2, <2>3 DEF MintKept
<1>6. ASSUME NEW c \in Cards PROVE CardTells(c)'
  BY <1>1, <1>3 DEF SignersInv, CardTells, Txs, Mints, Passkeys
<1> QED
  BY <1>1, <1>3, <1>5, <1>6 DEF SignersInv

\* What a step of one card has to show.
LEMMA CardMoves ==
  ASSUME SignersInv, NEW c \in Cards, NEW step, NEW subject, CardAt(c, step, subject),
         UNCHANGED tx \/ (\E x : Submitted(<<c, x>>) /\ step # "done"),
         step # "idle" => <<c, subject>> \in Txs,
         step = "done" => tx[<<c, subject>>] = "applied",
         UNCHANGED <<pc, config, seen, asking, signers>>
  PROVE  SignersInv'
<1>1. /\ card' = [d \in Cards |-> card'[d]] /\ card'[c] = [step |-> step, subject |-> subject]
      /\ \A d \in Cards \ {c} : card'[d] = card[d]
  BY DEF CardAt, SignersInv
<1>2. /\ tx' \in [Txs -> {"none", "pending", "applied", "failed"}]
      /\ \A a, x : a # c /\ <<a, x>> \in Txs => tx'[<<a, x>>] = tx[<<a, x>>]
      /\ step = "done" => UNCHANGED tx
  <2>1. CASE UNCHANGED tx
    BY <2>1 DEF SignersInv
  <2>2. ASSUME NEW x, Submitted(<<c, x>>), step # "done"
        PROVE  /\ tx' \in [Txs -> {"none", "pending", "applied", "failed"}]
               /\ \A a, y : a # c /\ <<a, y>> \in Txs => tx'[<<a, y>>] = tx[<<a, y>>]
    BY <2>2, SubmittedMoves
  <2> QED
    BY <2>1, <2>2
<1>3. ASSUME NEW m \in Mints PROVE MintKept(m)'
  <2>1. tx'[<<"attach", m>>] = tx[<<"attach", m>>] /\ tx'[<<"add", m>>] = tx[<<"add", m>>]
    BY <1>2, MintTxs DEF Cards
  <2>2. MintKept(m)
    BY DEF SignersInv
  <2> QED
    BY <2>1, <2>2 DEF MintKept
<1>4. CardTells(c)'
  BY <1>1, <1>2 DEF CardTells, Txs, Mints, Passkeys
<1>5. ASSUME NEW d \in Cards \ {c} PROVE CardTells(d)'
  BY <1>1, <1>2 DEF SignersInv, CardTells, Txs, Mints, Passkeys
<1>6. \A d \in Cards : CardTells(d)'
  BY <1>4, <1>5
<1>7. asking' # NoOne => asking' \in Mints /\ pc'[asking'] = "confirm"
  BY DEF SignersInv
<1> QED
  BY <1>1, <1>2, <1>3, <1>6, <1>7 DEF SignersInv

LEMMA AsksKeep ==
  ASSUME SignersInv,
         \/ \E s \in Passkeys \cup Mints : AskRevoke(s)
         \/ ApproveRevoke
         \/ \E p \in Spares : RunAddPasskey(p)
         \/ RunUpgrade
  PROVE  SignersInv'
<1>1. UNCHANGED <<pc, config, seen, asking, signers, tx>>
  BY DEF AskRevoke, ApproveRevoke, RunAddPasskey, RunUpgrade, mintVars, accountVars
<1>2. ASSUME NEW s \in Passkeys \cup Mints, AskRevoke(s) PROVE SignersInv'
  <2>1. CardAt("revoke", "confirm", s) /\ "revoke" \in Cards /\ <<"revoke", s>> \in Txs
    BY <1>2 DEF AskRevoke, Cards, Txs
  <2> QED
    BY <1>1, <2>1, CardMoves
<1>3. ASSUME ApproveRevoke PROVE SignersInv'
  <2>1. CardAt("revoke", "approving", card["revoke"].subject) /\ "revoke" \in Cards /\ card["revoke"].step = "confirm"
    BY <1>3 DEF ApproveRevoke, Cards
  <2>2. <<"revoke", card["revoke"].subject>> \in Txs
    BY <2>1 DEF SignersInv, CardTells
  <2> QED
    BY <1>1, <2>1, <2>2, CardMoves
<1>4. ASSUME NEW p \in Spares, RunAddPasskey(p) PROVE SignersInv'
  <2>1. CardAt("passkey", "approving", p) /\ "passkey" \in Cards /\ <<"passkey", p>> \in Txs
    BY <1>4 DEF RunAddPasskey, Cards, Txs
  <2> QED
    BY <1>1, <2>1, CardMoves
<1>5. ASSUME RunUpgrade PROVE SignersInv'
  <2>1. CardAt("upgrade", "approving", NoOne) /\ "upgrade" \in Cards /\ <<"upgrade", NoOne>> \in Txs
    BY <1>5 DEF RunUpgrade, Cards, Txs
  <2> QED
    BY <1>1, <2>1, CardMoves
<1> QED
  BY <1>2, <1>3, <1>4, <1>5

LEMMA CardStepsKeep ==
  ASSUME SignersInv, NEW c \in Cards, CardSubmits(c) \/ CardTracks(c) \/ CardFails(c) \/ Dismiss(c)
  PROVE  SignersInv'
<1> DEFINE x == card[c].subject
<1>1. UNCHANGED <<pc, config, seen, asking, signers>>
  BY DEF CardSubmits, CardTracks, CardFails, Dismiss, mintVars, accountVars
<1>2. card[c].step # "idle" => <<c, x>> \in Txs
  BY DEF SignersInv, CardTells
<1>3. CASE CardSubmits(c)
  <2>1. /\ Submitted(<<c, x>>) /\ card[c].step # "idle"
        /\ CardAt(c, "confirming", x) \/ CardAt(c, "error", x)
    BY <1>3 DEF CardSubmits
  <2> QED
    BY <1>1, <1>2, <2>1, CardMoves
<1>4. CASE CardTracks(c)
  <2>1. /\ UNCHANGED tx /\ card[c].step # "idle"
        /\ (tx[<<c, x>>] = "applied" /\ CardAt(c, "done", x)) \/ CardAt(c, "error", x)
    BY <1>4 DEF CardTracks, accountVars
  <2> QED
    BY <1>1, <1>2, <2>1, CardMoves
<1>5. CASE CardFails(c)
  <2>1. UNCHANGED tx /\ card[c].step # "idle" /\ CardAt(c, "error", x)
    BY <1>5 DEF CardFails, accountVars
  <2> QED
    BY <1>1, <1>2, <2>1, CardMoves
<1>6. CASE Dismiss(c)
  <2>1. UNCHANGED tx /\ CardAt(c, "idle", NoOne)
    BY <1>6 DEF Dismiss, accountVars
  <2> QED
    BY <1>1, <2>1, CardMoves
<1> QED
  BY <1>3, <1>4, <1>5, <1>6

LEMMA SignersStep == SignersInv /\ [MCNext]_clientVars => SignersInv'
<1> SUFFICES ASSUME SignersInv, [MCNext]_clientVars PROVE SignersInv'
  OBVIOUS
<1>1. ASSUME MintNext PROVE SignersInv'
  <2>1. ASSUME DismissSecret \/ StartOver PROVE SignersInv'
    BY <2>1, FrameSigners DEF DismissSecret, StartOver, accountVars, cardVars
  <2>2. ASSUME NEW m \in Mints,
               \/ (\E c \in Configs : StartMint(m, c)) \/ GenerateKey(m) \/ DeployInstance(m)
               \/ AttachPolicy(m) \/ AddAgentKey(m) \/ ConfirmMint(m) \/ MintFails(m)
        PROVE  SignersInv'
    BY <2>2, StartMintKeeps, KeyAndPolicyKeep, SubmissionsKeep, MintEndsKeep
  <2> QED
    BY <1>1, <2>1, <2>2, ConfirmDetailsKeeps DEF MintNext
<1>2. ASSUME CardNext PROVE SignersInv'
  <2>1. ASSUME ListSigners PROVE SignersInv'
    BY <2>1, FrameSigners DEF ListSigners, mintVars, accountVars
  <2> QED
    BY <1>2, <2>1, AsksKeep, CardStepsKeep DEF CardNext
<1>3. ASSUME Account PROVE SignersInv'
  <2>1. ASSUME InitRuntime PROVE SignersInv'
    BY <2>1, FrameSigners DEF InitRuntime, mintVars, accountVars
  <2> QED
    BY <1>3, <2>1, LandsKeeps DEF Account
<1>4. ASSUME UNCHANGED webVars PROVE SignersInv'
  BY <1>4, FrameSigners DEF webVars, mintVars, accountVars, cardVars
<1> QED
  BY <1>1, <1>2, <1>3, <1>4 DEF MCNext, clientVars

LEMMA SignersStart == WebInit => SignersInv
<1> SUFFICES ASSUME WebInit PROVE SignersInv
  OBVIOUS
<1>1. \A m \in Mints : m \notin signers /\ tx[<<"attach", m>>] = "none" /\ tx[<<"add", m>>] = "none"
  BY WebSignersAssumption, MintTxs DEF WebInit, Passkeys
<1>2. \A m \in Mints : MintKept(m)
  BY <1>1 DEF WebInit, MintKept
<1>3. \A c \in Cards : CardTells(c)
  BY DEF WebInit, CardTells
<1> QED
  BY <1>2, <1>3 DEF WebInit, SignersInv

\* The page says what it signs, for any number of runs, configurations and
\* passkeys: an agent key on the account is one whose details the user
\* confirmed, its policy was submitted first, and a card that says done had its
\* transaction applied (agent-mint.ts, signers-card.tsx).
THEOREM PageTellsOfSigners == MCSpec => []PageTellsTheTruth
<1>1. MCInit => SignersInv
  BY SignersStart DEF MCInit
<1> QED
  BY <1>1, SignersStep, SignersHold, PTL DEF MCSpec

-----------------------------------------------------------------------------
(***************************************************************************)
(* The verification page and the provenance card.                          *)
(***************************************************************************)
Statuses4 == {"submitted", "building", "verified", "failed"}
Finished  == {"verified", "failed"}

\* Only a contract's newest record may be under way; what is shown is its
\* history as it was, shifted by the records that came since.
HistoryInv ==
  /\ history \in [Sources -> Seq(Statuses4)]
  /\ \A c \in Sources : \A i \in DOMAIN history[c] : i > 1 => history[c][i] \in Finished

ShownOf(h, statuses) ==
  /\ statuses \in Seq(Statuses4) /\ Len(statuses) <= Len(h)
  /\ \A i \in DOMAIN statuses : statuses[i] \in Finished => h[i + (Len(h) - Len(statuses))] = statuses[i]

VerifyInv ==
  /\ HistoryInv
  /\ shown.kind = "records" => shown.of \in Sources /\ ShownOf(history[shown.of], shown.statuses)
  /\ sending \in [step : {"form", "busy", "received", "error"}, contract : Sources \cup {"none"}]
  /\ sending.step # "form" => sending.contract \in Sources
  /\ sending.step = "received" => history[sending.contract] # <<>>

LEMMA FrameVerify == VerifyInv /\ UNCHANGED <<history, shown, sending>> => VerifyInv'
  BY DEF VerifyInv, HistoryInv, ShownOf

\* A new record in front, or a new status of the newest one that was under way.
LEMMA ShownStays ==
  ASSUME NEW h \in Seq(Statuses4), NEW s, ShownOf(h, s)
  PROVE  /\ ShownOf(<<"submitted">> \o h, s)
         /\ \A x \in Statuses4 : h # <<>> /\ h[1] \notin Finished => ShownOf([h EXCEPT ![1] = x], s)
<1>1. ShownOf(<<"submitted">> \o h, s)
  <2> DEFINE g == <<"submitted">> \o h
  <2>1. Len(g) = Len(h) + 1 /\ \A i \in 1..Len(h) : g[i + 1] = h[i]
    OBVIOUS
  <2>2. ASSUME NEW i \in DOMAIN s, s[i] \in Finished PROVE g[i + (Len(g) - Len(s))] = s[i]
    <3> DEFINE j == i + (Len(h) - Len(s))
    <3>1. s \in Seq(Statuses4) /\ Len(s) <= Len(h) /\ h[j] = s[i]
      BY <2>2 DEF ShownOf
    <3>2. j \in 1..Len(h) /\ i + (Len(g) - Len(s)) = j + 1
      BY <2>1, <3>1
    <3> QED
      BY <2>1, <3>1, <3>2
  <2> QED
    BY <2>1, <2>2 DEF ShownOf
<1>2. ASSUME NEW x \in Statuses4, h # <<>>, h[1] \notin Finished PROVE ShownOf([h EXCEPT ![1] = x], s)
  <2> DEFINE g == [h EXCEPT ![1] = x]
  <2>1. Len(g) = Len(h) /\ \A i \in DOMAIN h : i # 1 => g[i] = h[i]
    OBVIOUS
  <2>2. ASSUME NEW i \in DOMAIN s, s[i] \in Finished PROVE g[i + (Len(g) - Len(s))] = s[i]
    <3> DEFINE j == i + (Len(h) - Len(s))
    <3>1. s \in Seq(Statuses4) /\ Len(s) <= Len(h) /\ h[j] = s[i]
      BY <2>2 DEF ShownOf
    <3>2. j \in DOMAIN h /\ j # 1
      BY <1>2, <2>2, <3>1
    <3> QED
      BY <2>1, <3>1, <3>2
  <2> QED
    BY <2>1, <2>2 DEF ShownOf
<1> QED
  BY <1>1, <1>2

LEMMA HistoryAnswersKeeps == ASSUME VerifyInv, NEW c \in Sources, HistoryAnswers(c) PROVE VerifyInv'
<1>1. UNCHANGED <<history, sending>>
  BY DEF HistoryAnswers
<1>2. ASSUME shown'.kind = "records" PROVE shown'.of = c /\ shown'.statuses = history[c]
  BY <1>2 DEF HistoryAnswers, HistoryOf, Nothing
<1>3. ShownOf(history[c], history[c])
  BY DEF VerifyInv, HistoryInv, ShownOf
<1> QED
  BY <1>1, <1>2, <1>3 DEF VerifyInv, HistoryInv, ShownOf

\* A contract's history moved: what is shown of it and what was called received stay true.
LEMMA HistoryMoves ==
  ASSUME VerifyInv, NEW c \in Sources, NEW h \in Seq(Statuses4), history' = [history EXCEPT ![c] = h],
         UNCHANGED shown, h # <<>>,
         \A i \in DOMAIN h : i > 1 => h[i] \in Finished,
         \A s : ShownOf(history[c], s) => ShownOf(h, s),
         sending' \in [step : {"form", "busy", "received", "error"}, contract : Sources \cup {"none"}],
         sending'.step # "form" => sending'.contract \in Sources,
         sending'.step = "received" => sending'.contract = c \/ sending' = sending
  PROVE  VerifyInv'
<1>1. history \in [Sources -> Seq(Statuses4)]
  BY DEF VerifyInv, HistoryInv
<1>2. /\ history' \in [Sources -> Seq(Statuses4)] /\ history'[c] = h
      /\ \A d \in Sources \ {c} : history'[d] = history[d]
  BY <1>1
<1>3. HistoryInv'
  BY <1>2 DEF VerifyInv, HistoryInv
<1>4. ASSUME shown'.kind = "records" PROVE shown'.of \in Sources /\ ShownOf(history'[shown'.of], shown'.statuses)
  <2>1. shown.of \in Sources /\ ShownOf(history[shown.of], shown.statuses)
    BY <1>4 DEF VerifyInv
  <2>2. CASE shown.of = c
    BY <1>2, <2>1, <2>2
  <2>3. CASE shown.of # c
    BY <1>2, <2>1, <2>3
  <2> QED
    BY <2>2, <2>3
<1>5. ASSUME sending'.step = "received" PROVE history'[sending'.contract] # <<>>
  <2>1. sending'.contract \in Sources
    BY <1>5
  <2>2. CASE sending'.contract = c
    BY <1>2, <2>2
  <2>3. CASE sending'.contract # c
    BY <1>2, <1>5, <2>1, <2>3 DEF VerifyInv
  <2> QED
    BY <2>2, <2>3
<1>6. (shown.kind = "records" => shown.of \in Sources /\ ShownOf(history[shown.of], shown.statuses))'
  BY <1>4 DEF ShownOf
<1> QED
  BY <1>3, <1>5, <1>6 DEF VerifyInv

LEMMA SubmitAnswersKeeps == ASSUME VerifyInv, SubmitAnswers PROVE VerifyInv'
<1> DEFINE c == sending.contract
<1>1. c \in Sources /\ history[c] \in Seq(Statuses4)
  BY DEF SubmitAnswers, VerifyInv, HistoryInv
<1>2. PICK s \in {"received", "error"} : sending' = [sending EXCEPT !.step = s]
  BY DEF SubmitAnswers
<1>3. /\ sending' \in [step : {"form", "busy", "received", "error"}, contract : Sources \cup {"none"}]
      /\ sending'.step = s /\ sending'.contract = c
  BY <1>2 DEF VerifyInv
<1>4. UNCHANGED shown
  BY DEF SubmitAnswers
<1>5. CASE UNCHANGED history /\ s = "error"
  <2>1. HistoryInv' /\ (shown.kind = "records" => shown.of \in Sources /\ ShownOf(history[shown.of], shown.statuses))'
    BY <1>4, <1>5 DEF VerifyInv, HistoryInv, ShownOf
  <2> QED
    BY <1>1, <1>3, <1>5, <2>1 DEF VerifyInv
<1>6. CASE ~Active(c) /\ history' = [history EXCEPT ![c] = <<"submitted">> \o @]
  <2> DEFINE h == <<"submitted">> \o history[c]
  <2>1. h \in Seq(Statuses4) /\ h # <<>> /\ \A t : ShownOf(history[c], t) => ShownOf(h, t)
    <3>1. <<"submitted">> \in Seq(Statuses4)
      BY DEF Statuses4
    <3>2. h \in Seq(Statuses4) /\ h # <<>>
      BY <1>1, <3>1
    <3>3. ASSUME NEW t, ShownOf(history[c], t) PROVE ShownOf(h, t)
      BY <1>1, <3>3, ShownStays
    <3> QED
      BY <3>2, <3>3
  <2>2. \A i \in DOMAIN h : i > 1 => h[i] \in Finished
    <3>1. \A i \in DOMAIN history[c] : history[c][i] \in Finished
      BY <1>1, <1>6 DEF Active, Statuses4, Finished
    <3>2. \A i \in DOMAIN h : i > 1 => i - 1 \in DOMAIN history[c] /\ h[i] = history[c][i - 1]
      BY <1>1
    <3> QED
      BY <3>1, <3>2
  <2>3. PICK d \in Sources, g \in Seq(Statuses4) : d = c /\ g = h
    BY <1>1, <2>1
  <2>4. history' = [history EXCEPT ![d] = g]
    BY <1>6, <2>3
  <2> HIDE DEF h, c
  <2> QED
    BY <1>3, <1>4, <2>1, <2>2, <2>3, <2>4, HistoryMoves
<1> QED
  BY <1>2, <1>3, <1>5, <1>6 DEF SubmitAnswers

LEMMA WorkerReportsKeeps ==
  ASSUME VerifyInv, NEW c \in Sources, NEW x \in {"building", "verified", "failed"}, WorkerReports(c, x)
  PROVE  VerifyInv'
<1> DEFINE h == [history[c] EXCEPT ![1] = x]
<1>1. /\ history' = [history EXCEPT ![c] = h] /\ UNCHANGED <<shown, sending>>
      /\ Active(c) /\ history[c] \in Seq(Statuses4)
  BY DEF WorkerReports, VerifyInv, HistoryInv
<1>2. history[c] # <<>> /\ history[c][1] \notin Finished
  BY <1>1 DEF VerifyInv, HistoryInv, Active, Finished
<1>3. h \in Seq(Statuses4) /\ h # <<>> /\ DOMAIN h = DOMAIN history[c] /\ \A i \in DOMAIN h : i > 1 => h[i] = history[c][i]
  BY <1>1, <1>2 DEF Statuses4
<1>4. \A t : ShownOf(history[c], t) => ShownOf(h, t)
  BY <1>1, <1>2, ShownStays DEF Statuses4
<1>5. \A i \in DOMAIN h : i > 1 => h[i] \in Finished
  BY <1>3 DEF VerifyInv, HistoryInv
<1>6. /\ sending' \in [step : {"form", "busy", "received", "error"}, contract : Sources \cup {"none"}]
      /\ sending'.step # "form" => sending'.contract \in Sources
  BY <1>1 DEF VerifyInv
<1> HIDE DEF h
<1> QED
  BY <1>1, <1>3, <1>4, <1>5, <1>6, HistoryMoves

LEMMA VerifyNextKeeps == ASSUME VerifyInv, VerifyNext PROVE VerifyInv'
<1>1. ASSUME NEW a, Type(a) PROVE VerifyInv'
  BY <1>1, FrameVerify DEF Type
<1>2. ASSUME Lookup PROVE VerifyInv'
  <2>1. UNCHANGED <<history, sending>> /\ shown'.kind # "records"
    BY <1>2 DEF Lookup, Nothing
  <2> QED
    BY <2>1 DEF VerifyInv, HistoryInv, ShownOf
<1>3. ASSUME NEW c \in Sources, SubmitContract(c) PROVE VerifyInv'
  <2>1. UNCHANGED <<history, shown>> /\ sending' = [step |-> "busy", contract |-> c]
    BY <1>3 DEF SubmitContract
  <2> QED
    BY <2>1 DEF VerifyInv, HistoryInv, ShownOf
<1> QED
  BY <1>1, <1>2, <1>3, HistoryAnswersKeeps, SubmitAnswersKeeps, WorkerReportsKeeps DEF VerifyNext

\* The card's modes; a policy it has deployed and not attached has not landed.
Modes == {"off", "warn"} \cup OnChain
ModeCards ==
  [step : {"idle", "generating", "approving", "confirming", "done", "error", "dismissed"},
   contract : Nat, mode : Modes, publishers : PublisherLists \cup {<<>>}]
PolicyRecords == [mode : Modes, publishers : PublisherLists \cup {<<>>}]

ModeInv ==
  /\ policies \in Seq(PolicyRecords) /\ modeCard \in ModeCards /\ chosen \in Modes /\ pref.mode \in Modes
  /\ landed \subseteq DOMAIN policies
  /\ pref.mode \in OnChain =>
       /\ pref.contract \in landed
       /\ policies[pref.contract] = [mode |-> pref.mode, publishers |-> pref.publishers]
  /\ modeCard.step \in {"approving", "confirming", "done", "dismissed"} => modeCard.contract \in DOMAIN policies
  /\ modeCard.step \in {"approving", "confirming"} =>
       policies[modeCard.contract] = [mode |-> modeCard.mode, publishers |-> modeCard.publishers]
  /\ modeCard.step \in {"approving", "dismissed"} => modeCard.contract \notin landed
  /\ modeCard.step = "done" => modeCard.contract \in landed

LEMMA FrameMode == ModeInv /\ UNCHANGED <<pref, chosen, modeCard, policies, landed>> => ModeInv'
  BY DEF ModeInv, ModeCards, PolicyRecords, Modes, OnChain

\* The card shows a step that says nothing of a contract.
LEMMA ModeIdles ==
  ASSUME ModeInv, modeCard' \in ModeCards, modeCard'.step \in {"idle", "generating", "error"},
         chosen' \in Modes, UNCHANGED <<pref, policies>>, landed' \in {landed, landed \cup {modeCard.contract}},
         landed' # landed => modeCard.step = "approving"
  PROVE  ModeInv'
  BY DEF ModeInv

LEMMA ModeCardTyped ==
  /\ CardIdle \in ModeCards /\ [CardIdle EXCEPT !.step = "error"] \in ModeCards
  /\ [CardIdle EXCEPT !.step = "error"].step = "error" /\ CardIdle.step = "idle"
  BY DEF CardIdle, ModeCards, Modes

LEMMA DeployAnswersKeeps == ASSUME ModeInv, DeployAnswers PROVE ModeInv'
<1> DEFINE e == [mode |-> modeCard.mode, publishers |-> modeCard.publishers]  n == Len(policies) + 1
<1>1. /\ policies' = Append(policies, e) /\ UNCHANGED <<pref, chosen, landed>>
      /\ modeCard' = [step |-> "approving", contract |-> n, mode |-> modeCard.mode, publishers |-> modeCard.publishers]
  BY DEF DeployAnswers
<1>2. modeCard.mode \in Modes /\ modeCard.publishers \in PublisherLists \cup {<<>>} /\ n \in Nat
  BY DEF ModeInv, ModeCards
<1>3. e \in PolicyRecords
  BY <1>2 DEF PolicyRecords
<1>4. /\ policies' \in Seq(PolicyRecords) /\ DOMAIN policies' = DOMAIN policies \cup {n} /\ n \notin DOMAIN policies
      /\ (\A i \in DOMAIN policies : policies'[i] = policies[i]) /\ policies'[n] = e
  BY <1>1, <1>3 DEF ModeInv
<1>5. modeCard' \in ModeCards
  BY <1>1, <1>2 DEF ModeCards
<1>6. modeCard'.step = "approving" /\ modeCard'.contract = n /\ policies'[n] = [mode |-> modeCard'.mode, publishers |-> modeCard'.publishers]
  BY <1>1, <1>4
<1> HIDE DEF e, n
<1> QED
  BY <1>1, <1>4, <1>5, <1>6 DEF ModeInv

LEMMA ModeNextKeeps == ASSUME ModeInv, ModeNext PROVE ModeInv'
<1>1. ASSUME OpenCard PROVE ModeInv'
  <2>1. modeCard' = CardIdle /\ UNCHANGED <<pref, policies, landed>> /\ chosen' = pref.mode
    BY <1>1 DEF OpenCard
  <2> QED
    BY <2>1, ModeCardTyped, ModeIdles DEF ModeInv
<1>2. ASSUME NEW m \in {"off", "warn"} \cup OnChain, Choose(m) PROVE ModeInv'
  BY <1>2 DEF Choose, ModeInv, ModeCards, PolicyRecords, Modes
<1>3. ASSUME ApplyClientMode PROVE ModeInv'
  <2>1. modeCard' = CardIdle /\ UNCHANGED <<policies, landed, chosen>> /\ pref' = [Off EXCEPT !.mode = chosen]
        /\ chosen \in {"off", "warn"}
    BY <1>3 DEF ApplyClientMode
  <2>2. pref'.mode = chosen /\ chosen \notin OnChain
    BY <2>1 DEF Off, OnChain
  <2> QED
    BY <2>1, <2>2, ModeCardTyped DEF ModeInv
<1>4. ASSUME NEW l \in PublisherLists, Generate(l) PROVE ModeInv'
  <2>1. UNCHANGED <<pref, chosen, policies, landed>>
    BY <1>4 DEF Generate
  <2>2. chosen \in Modes
    BY DEF ModeInv
  <2>3. modeCard' \in ModeCards /\ modeCard'.step \in {"generating", "error"}
    <3>1. CASE modeCard' = [CardIdle EXCEPT !.step = "error"]
      BY <3>1, ModeCardTyped
    <3>2. CASE modeCard' # [CardIdle EXCEPT !.step = "error"]
      <4>1. PICK p \in PublisherLists \cup {<<>>} :
              modeCard' = [step |-> "generating", contract |-> 0, mode |-> chosen, publishers |-> p]
        BY <1>4, <3>2 DEF Generate
      <4> QED
        BY <2>2, <4>1 DEF ModeCards
    <3> QED
      BY <3>1, <3>2
  <2> QED
    BY <2>1, <2>2, <2>3, ModeIdles
<1>5. ASSUME ModeAttached PROVE ModeInv'
  <2>1. /\ modeCard.step = "approving" /\ modeCard' = [modeCard EXCEPT !.step = "confirming"]
        /\ landed' \in {landed, landed \cup {modeCard.contract}} /\ UNCHANGED <<pref, chosen, policies>>
    BY <1>5 DEF ModeAttached
  <2>2. /\ modeCard' \in ModeCards /\ modeCard'.step = "confirming" /\ modeCard'.contract = modeCard.contract
        /\ modeCard'.mode = modeCard.mode /\ modeCard'.publishers = modeCard.publishers
    BY <2>1 DEF ModeInv, ModeCards
  <2> QED
    BY <2>1, <2>2 DEF ModeInv
<1>6. ASSUME DismissMode PROVE ModeInv'
  <2>1. /\ modeCard.step = "approving" /\ modeCard' = [modeCard EXCEPT !.step = "dismissed"]
        /\ UNCHANGED <<pref, chosen, policies, landed>>
    BY <1>6 DEF DismissMode
  <2>2. modeCard' \in ModeCards /\ modeCard'.step = "dismissed" /\ modeCard'.contract = modeCard.contract
    BY <2>1 DEF ModeInv, ModeCards
  <2> QED
    BY <2>1, <2>2 DEF ModeInv
<1>7. ASSUME Confirm PROVE ModeInv'
  <2>1. /\ modeCard.step = "confirming" /\ modeCard.contract \in landed
        /\ pref' = [mode |-> modeCard.mode, publishers |-> modeCard.publishers, contract |-> modeCard.contract]
        /\ modeCard' = [modeCard EXCEPT !.step = "done"] /\ UNCHANGED <<chosen, policies, landed>>
    BY <1>7 DEF Confirm, SeenOnChain
  <2>2. modeCard' \in ModeCards /\ modeCard'.step = "done" /\ modeCard'.contract = modeCard.contract
        /\ modeCard.mode \in Modes
    BY <2>1 DEF ModeInv, ModeCards
  <2>3. pref'.mode = modeCard.mode /\ pref'.publishers = modeCard.publishers /\ pref'.contract = modeCard.contract
    BY <2>1
  <2> QED
    BY <2>1, <2>2, <2>3 DEF ModeInv
<1>8. ASSUME ModeFails PROVE ModeInv'
  <2>1. /\ modeCard' = [modeCard EXCEPT !.step = "error"] /\ UNCHANGED <<pref, chosen, policies>>
        /\ landed' \in {landed, landed \cup {modeCard.contract}}
        /\ landed' # landed => modeCard.step = "approving"
    BY <1>8 DEF ModeFails
  <2>2. modeCard' \in ModeCards /\ modeCard'.step = "error" /\ chosen \in Modes
    BY <2>1 DEF ModeInv, ModeCards
  <2> QED
    BY <2>1, <2>2, ModeIdles
<1>9. ASSUME RefreshSigners \/ \E c \in installed : DetachElsewhere(c) PROVE ModeInv'
  BY <1>9, FrameMode DEF RefreshSigners, DetachElsewhere
<1> QED
  BY <1>1, <1>2, <1>3, <1>4, <1>5, <1>6, <1>7, <1>8, <1>9, DeployAnswersKeeps DEF ModeNext

ProvInv == VerifyInv /\ ModeInv

LEMMA ProvStep == ProvInv /\ [MCNext]_clientVars => ProvInv'
<1> SUFFICES ASSUME ProvInv, [MCNext]_clientVars PROVE ProvInv'
  OBVIOUS
<1>1. ASSUME VerifyNext PROVE UNCHANGED modeVars
  BY <1>1 DEF VerifyNext, Type, Lookup, HistoryAnswers, SubmitContract, SubmitAnswers, WorkerReports
<1>2. ASSUME ModeNext PROVE UNCHANGED verifyVars
  BY <1>2 DEF ModeNext, OpenCard, Choose, ApplyClientMode, Generate, DeployAnswers, ModeAttached, DismissMode, Confirm,
              ModeFails, RefreshSigners, DetachElsewhere
<1>3. \/ VerifyNext /\ UNCHANGED modeVars
      \/ ModeNext /\ UNCHANGED verifyVars
      \/ UNCHANGED modeVars /\ UNCHANGED verifyVars
  BY <1>1, <1>2 DEF MCNext, clientVars, provVars
<1>4. UNCHANGED modeVars => ModeInv'
  BY FrameMode DEF ProvInv, modeVars
<1>5. UNCHANGED verifyVars => VerifyInv'
  BY FrameVerify DEF ProvInv, verifyVars
<1> QED
  BY <1>3, <1>4, <1>5, VerifyNextKeeps, ModeNextKeeps DEF ProvInv

LEMMA ProvStarts == ProvInit => ProvInv
<1> SUFFICES ASSUME ProvInit PROVE ProvInv
  OBVIOUS
<1>1. VerifyInv
  BY DEF ProvInit, VerifyInv, HistoryInv, Nothing
<1>2. ModeInv
  BY ModeCardTyped DEF ProvInit, ModeInv, Off, CardIdle, Modes, OnChain
<1> QED
  BY <1>1, <1>2 DEF ProvInv

LEMMA ProvHolds == ProvInv => ProvenanceShownTrue
<1> SUFFICES ASSUME ProvInv PROVE ProvenanceShownTrue
  OBVIOUS
<1>1. ASSUME shown.kind = "records"
      PROVE  LET now   == history[shown.of]
                 later == Len(now) - Len(shown.statuses)
             IN  later >= 0 /\ \A i \in DOMAIN shown.statuses :
                   shown.statuses[i] \in {"verified", "failed"} => now[i + later] = shown.statuses[i]
  <2>1. shown.of \in Sources /\ ShownOf(history[shown.of], shown.statuses) /\ history[shown.of] \in Seq(Statuses4)
    BY <1>1 DEF ProvInv, VerifyInv, HistoryInv
  <2>2. Len(history[shown.of]) \in Nat /\ Len(shown.statuses) \in Nat /\ Len(shown.statuses) <= Len(history[shown.of])
    BY <2>1 DEF ShownOf
  <2>3. \A i \in DOMAIN shown.statuses : shown.statuses[i] \in {"verified", "failed"} =>
          history[shown.of][i + (Len(history[shown.of]) - Len(shown.statuses))] = shown.statuses[i]
    BY <2>1 DEF ShownOf, Finished
  <2>4. Len(history[shown.of]) - Len(shown.statuses) >= 0
    BY <2>2
  <2> QED
    BY <2>3, <2>4, Zenon
<1> QED
  BY <1>1 DEF ProvInv, VerifyInv, ModeInv, ProvenanceShownTrue

\* A mode called current is that of a policy that landed, "attached" and "no
\* policy was attached" are so, and a verdict shown is one the history holds:
\* for any contracts, publishers and order of the answers (provenance-card.tsx,
\* verify/page.tsx).
THEOREM ProvenanceIsShownTrue == MCSpec => []ProvenanceShownTrue
<1>1. MCInit => ProvInv
  BY ProvStarts DEF MCInit
<1> QED
  BY <1>1, ProvStep, ProvHolds, PTL DEF MCSpec

-----------------------------------------------------------------------------
(***************************************************************************)
(* Sequences made of sets and of sequences.                                *)
(***************************************************************************)

\* SetToSeq lists every element once.
LEMMA SetListed ==
  ASSUME NEW S, IsFiniteSet(S)
  PROVE  /\ Cardinality(S) \in Nat
         /\ SetToSeq(S) \in [1..Cardinality(S) -> S]
         /\ \A i, j \in 1..Cardinality(S) : SetToSeq(S)[i] = SetToSeq(S)[j] => i = j
         /\ \A x \in S : \E i \in 1..Cardinality(S) : SetToSeq(S)[i] = x
<1>1. Cardinality(S) \in Nat /\ ExistsBijection(1..Cardinality(S), S)
  BY FS_CardinalityType
<1>2. \E f \in [1..Cardinality(S) -> S] : IsInjective(f)
  BY <1>1 DEF ExistsBijection, Bijection, Injection
<1>3. SetToSeq(S) \in [1..Cardinality(S) -> S] /\ IsInjective(SetToSeq(S))
  BY <1>2 DEF SetToSeq
<1> DEFINE f == SetToSeq(S)
           N == 1..Cardinality(S)
<1>4. IsFiniteSet(N) /\ Cardinality(N) = Cardinality(S)
  BY <1>1, FS_Interval
<1>5. f \in Injection(N, S)
  BY <1>3 DEF Injection
<1>6. f \in Surjection(N, S)
  <2> HIDE DEF f, N
  <2> QED
    BY <1>4, <1>5, FS_Injection
<1>7. \A x \in S : \E i \in N : f[i] = x
  BY <1>6 DEF Surjection
<1>8. \A i, j \in N : f[i] = f[j] => i = j
  BY <1>3 DEF IsInjective
<1> QED
  BY <1>1, <1>3, <1>7, <1>8

\* FlattenSeq appends the sequences one by one.
LEMMA Flattened ==
  ASSUME NEW S, NEW seqs \in Seq(Seq(S)), Len(seqs) # 0
  PROVE  \E f \in [1..Len(seqs) -> Seq(S)] :
           /\ f[1] = seqs[1]
           /\ \A i \in 1..Len(seqs) : i < Len(seqs) => f[i + 1] = f[i] \o seqs[i + 1]
           /\ FlattenSeq(seqs) = f[Len(seqs)]
<1> DEFINE n == Len(seqs)
           X == Seq(S)
           Step(i, x) == IF i + 2 \in 1..n THEN x \o seqs[i + 2] ELSE x
           G == [i \in Nat |-> [x \in X |-> Step(i, x)]]
           Eq(g) == g = [i \in 1..n |-> IF i = 1 THEN seqs[i] ELSE g[i - 1] \o seqs[i]]
<1>1. n \in Nat \ {0} /\ 1 \in 1..n /\ \A i \in 1..n : seqs[i] \in X
  OBVIOUS
<1>a. seqs[1] \in X
  BY <1>1
<1>2. \A i \in Nat : \A x \in X : Step(i, x) \in X
  BY <1>1, ConcatProperties
<1>3. G \in [Nat -> [X -> X]]
  <2> HIDE DEF Step, X
  <2> QED
    BY <1>2
<1>4. PICK h : Recurs(h, X, seqs[1], G)
  <2> HIDE DEF G, X
  <2> QED
    BY <1>a, <1>3, NatRecursion
<1>5. \A i \in Nat : h[i] \in X
  <2> HIDE DEF G, X
  <2> QED
    BY <1>4 DEF Recurs
<1>6. \A i \in Nat : h[i + 1] = Step(i, h[i])
  <2>1. \A i \in Nat : h[i + 1] = G[i][h[i]]
    <3> HIDE DEF G, X
    <3> QED
      BY <1>4 DEF Recurs
  <2> HIDE DEF Step, X
  <2> QED
    BY <2>1, <1>5
<1> DEFINE g == [i \in 1..n |-> h[i - 1]]
<1>7. Eq(g)
  <2> SUFFICES ASSUME NEW i \in 1..n
               PROVE  g[i] = IF i = 1 THEN seqs[i] ELSE g[i - 1] \o seqs[i]
    BY Zenon
  <2>1. CASE i = 1
    BY <2>1, <1>4 DEF Recurs
  <2>2. CASE i # 1
    <3>1. i - 2 \in Nat /\ i - 1 \in 1..n /\ (i - 2) + 1 = i - 1 /\ (i - 2) + 2 = i
      BY <2>2, <1>1
    <3>2. h[i - 1] = Step(i - 2, h[i - 2])
      BY <3>1, <1>6
    <3>3. h[i - 1] = h[i - 2] \o seqs[i]
      BY <3>1, <3>2
    <3>4. g[i] = h[i - 1] /\ g[i - 1] = h[i - 2]
      BY <3>1
    <3> QED
      BY <2>2, <3>3, <3>4
  <2> QED
    BY <2>1, <2>2
<1>8. PICK e : e = CHOOSE q : Eq(q)
  OBVIOUS
<1>9. Eq(e)
  <2> HIDE DEF Eq, g
  <2> QED
    BY <1>7, <1>8
<1>10. FlattenSeq(seqs) = e[n]
  BY <1>8 DEF FlattenSeq
<1>11. /\ e[1] = seqs[1]
       /\ \A i \in 1..n : i < n => e[i + 1] = e[i] \o seqs[i + 1]
  <2>1. e[1] = seqs[1]
    BY <1>9, <1>1
  <2>2. ASSUME NEW i \in 1..n, i < n PROVE e[i + 1] = e[i] \o seqs[i + 1]
    <3>1. i + 1 \in 1..n /\ i + 1 # 1 /\ (i + 1) - 1 = i
      BY <2>2, <1>1
    <3> QED
      BY <3>1, <1>9
  <2> QED
    BY <2>1, <2>2
<1>12. \A i \in 1..n : e[i] \in X
  <2>0. /\ e[1] \in X
        /\ \A i \in 1..n : i < n /\ e[i] \in X => e[i + 1] \in X
    <3>1. ASSUME NEW i \in 1..n, i < n, e[i] \in X PROVE e[i + 1] \in X
      <4>1. i + 1 \in 1..n
        BY <1>1, <3>1
      <4>2. seqs[i + 1] \in X
        BY <1>1, <4>1
      <4> QED
        BY <3>1, <4>2, <1>11, ConcatProperties
    <3> QED
      BY <1>a, <1>11, <3>1
  <2> HIDE DEF X
  <2> DEFINE T == {i \in Nat : i + 1 \in 1..n => e[i + 1] \in X}
  <2>1. 0 \in T
    BY <2>0
  <2>2. ASSUME NEW i \in Nat, i \in T PROVE i + 1 \in T
    <3> SUFFICES ASSUME (i + 1) + 1 \in 1..n PROVE e[(i + 1) + 1] \in X
      OBVIOUS
    <3>1. i + 1 \in 1..n /\ i + 1 < n
      BY <1>1
    <3> QED
      BY <2>0, <2>2, <3>1
  <2>3. \A i \in Nat : i \in T
    <3> HIDE DEF T
    <3> QED
      BY <2>1, <2>2, NatSets
  <2>4. ASSUME NEW i \in 1..n PROVE e[i] \in X
    <3>1. i - 1 \in Nat /\ (i - 1) + 1 = i
      BY <1>1
    <3> QED
      BY <2>3, <3>1
  <2> QED
    BY <2>4
<1>13. e \in [1..n -> X]
  <2>1. e = [i \in 1..n |-> e[i]]
    BY <1>9
  <2> QED
    BY <2>1, <1>12
<1> QED
  BY <1>10, <1>11, <1>13

LEMMA FlattenedNone == FlattenSeq(<<>>) = <<>>
  BY DEF FlattenSeq
-----------------------------------------------------------------------------
(***************************************************************************)
(* The ledger runs a transaction's operations one by one.                  *)
(***************************************************************************)
AccountSet ==
  [open : BOOLEAN, seq : Nat, xlm : Int, lines : UNION {[D -> Nat] : D \in SUBSET Assets},
   offers : SUBSET Assets, data : BOOLEAN]
AssetOp == [kind : {"cancel", "pay", "untrust"}, asset : Assets, amount : Nat]
AnyOp == AssetOp \cup {Op("delete", "data", 0), Op("merge", "xlm", 0)}

LEMMA AccountIn == \A a : IsAccount(a) <=> a \in AccountSet
<1> SUFFICES ASSUME NEW a PROVE IsAccount(a) <=> a \in AccountSet
  OBVIOUS
<1>1. ASSUME IsAccount(a) PROVE a \in AccountSet
  BY <1>1 DEF IsAccount, AccountSet
<1>2. ASSUME a \in AccountSet PROVE IsAccount(a)
  <2>1. PICK D \in SUBSET Assets : a.lines \in [D -> Nat]
    BY <1>2 DEF AccountSet
  <2> QED
    BY <1>2, <2>1 DEF IsAccount, AccountSet
<1> QED
  BY <1>1, <1>2

LEMMA GoneTyped == IsAccount(Gone)
  BY DEF IsAccount, Gone

LEMMA ApplyTyped ==
  ASSUME NEW a, IsAccount(a), NEW o \in AnyOp, Applies(a, o)
  PROVE  IsAccount(Apply(a, o))
<1>1. CASE o.kind = "cancel"
  BY <1>1 DEF Apply, IsAccount
<1>2. CASE o.kind = "pay"
  <2>1. /\ a.lines \in [DOMAIN a.lines -> Nat] /\ o.asset \in DOMAIN a.lines
        /\ a.lines[o.asset] - o.amount \in Nat
    BY <1>2 DEF Applies, IsAccount, AnyOp, AssetOp, Op
  <2>2. Apply(a, o) = [a EXCEPT !.lines[o.asset] = @ - o.amount]
    BY <1>2 DEF Apply
  <2> QED
    BY <2>1, <2>2 DEF IsAccount
<1>3. CASE o.kind = "untrust"
  BY <1>3 DEF Apply, IsAccount, Drop
<1>4. CASE o.kind = "delete"
  BY <1>4 DEF Apply, IsAccount
<1>5. CASE o.kind = "merge"
  BY <1>5, GoneTyped DEF Apply
<1> QED
  BY <1>1, <1>2, <1>3, <1>4, <1>5 DEF AnyOp, AssetOp, Op

Ran == [ok : BOOLEAN, acct : AccountSet]

LEMMA AfterTyped == \A r \in Ran, o \in AnyOp : After(r, o) \in Ran
<1> SUFFICES ASSUME NEW r \in Ran, NEW o \in AnyOp PROVE After(r, o) \in Ran
  OBVIOUS
<1>1. IsAccount(r.acct)
  BY AccountIn DEF Ran
<1>2. ASSUME Applies(r.acct, o) PROVE Apply(r.acct, o) \in AccountSet
  BY <1>1, <1>2, ApplyTyped, AccountIn
<1> QED
  BY <1>2 DEF Ran, After

\* The steps of Run.
Runs(r, a, ops) ==
  /\ r \in [0..Len(ops) -> Ran] /\ r[0] = [ok |-> TRUE, acct |-> a]
  /\ \A n \in 1..Len(ops) : r[n] = After(r[n - 1], ops[n])
  /\ Run(a, ops) = r[Len(ops)]

LEMMA RunSteps ==
  ASSUME NEW a, IsAccount(a), NEW ops \in Seq(AnyOp)
  PROVE  \E r : Runs(r, a, ops)
<1> DEFINE N == Len(ops)
           b == [ok |-> TRUE, acct |-> a]
           Step(i, x) == IF i + 1 \in 1..N THEN After(x, ops[i + 1]) ELSE x
           G == [i \in Nat |-> [x \in Ran |-> Step(i, x)]]
           Eq(g) == g = [n \in 0..N |-> IF n = 0 THEN b ELSE After(g[n - 1], ops[n])]
<1>1. N \in Nat /\ \A i \in 1..N : ops[i] \in AnyOp
  OBVIOUS
<1>2. b \in Ran
  BY AccountIn DEF Ran
<1>3. G \in [Nat -> [Ran -> Ran]]
  <2>1. \A i \in Nat : \A x \in Ran : Step(i, x) \in Ran
    BY <1>1, AfterTyped
  <2> HIDE DEF Step
  <2> QED
    BY <2>1
<1>4. PICK h : Recurs(h, Ran, b, G)
  <2> HIDE DEF G, b
  <2> QED
    BY <1>2, <1>3, NatRecursion
<1>5. /\ h \in [Nat -> Ran] /\ h[0] = b
      /\ \A i \in Nat : h[i + 1] = Step(i, h[i])
  <2>1. h \in [Nat -> Ran] /\ h[0] = b /\ \A i \in Nat : h[i + 1] = G[i][h[i]]
    <3> HIDE DEF G, b
    <3> QED
      BY <1>4 DEF Recurs
  <2> HIDE DEF Step, b
  <2> QED
    BY <2>1
<1> DEFINE g == [n \in 0..N |-> h[n]]
<1>6. ASSUME NEW i \in 1..N PROVE h[i] = After(h[i - 1], ops[i])
  <2>1. i - 1 \in Nat /\ (i - 1) + 1 = i
    BY <1>1
  <2> QED
    BY <1>5, <2>1
<1>7. Eq(g)
  <2> SUFFICES ASSUME NEW n \in 0..N PROVE g[n] = IF n = 0 THEN b ELSE After(g[n - 1], ops[n])
    BY Zenon
  <2>1. CASE n = 0
    BY <2>1, <1>5
  <2>2. CASE n # 0
    <3>1. n \in 1..N /\ n - 1 \in 0..N
      BY <2>2, <1>1
    <3> QED
      BY <2>2, <3>1, <1>6
  <2> QED
    BY <2>1, <2>2
<1>8. PICK e : e = CHOOSE q : Eq(q)
  OBVIOUS
<1>9. Eq(e)
  <2> HIDE DEF Eq, g
  <2> QED
    BY <1>7, <1>8
<1>10. Run(a, ops) = e[N]
  BY <1>8 DEF Run
<1>11. /\ e[0] = b
       /\ \A n \in 1..N : e[n] = After(e[n - 1], ops[n])
  <2>1. \A n \in 0..N : e[n] = IF n = 0 THEN b ELSE After(e[n - 1], ops[n])
    BY <1>9, Zenon
  <2> HIDE DEF Eq, b
  <2> QED
    BY <2>1, <1>1
<1>12. \A n \in Nat : n <= N => e[n] \in Ran
  <2> DEFINE T == {n \in Nat : n <= N => e[n] \in Ran}
  <2>1. 0 \in T
    BY <1>2, <1>11
  <2>2. ASSUME NEW n \in Nat, n \in T PROVE n + 1 \in T
    <3> SUFFICES ASSUME n + 1 <= N PROVE e[n + 1] \in Ran
      OBVIOUS
    <3>1. n + 1 \in 1..N /\ (n + 1) - 1 = n /\ n <= N
      BY <1>1
    <3> QED
      BY <1>1, <1>11, <2>2, <3>1, AfterTyped
  <2>3. \A n \in Nat : n \in T
    <3> HIDE DEF T
    <3> QED
      BY <2>1, <2>2, NatSets
  <2> QED
    BY <2>3
<1>13. e \in [0..N -> Ran]
  <2>1. e = [n \in 0..N |-> e[n]]
    BY <1>9
  <2> HIDE DEF Eq
  <2> QED
    BY <1>1, <1>12, <2>1
<1> QED
  BY <1>10, <1>11, <1>13 DEF Runs

\* b comes of a: nothing was added, and the sequence number is the same.
Kept(a, b) ==
  b.open => /\ a.open /\ b.seq = a.seq /\ b.offers \subseteq a.offers
            /\ DOMAIN b.lines \subseteq DOMAIN a.lines /\ (b.data => a.data)

LEMMA KeptStep ==
  ASSUME NEW a, NEW b, IsAccount(b), Kept(a, b), NEW o \in AnyOp, Applies(b, o)
  PROVE  Kept(a, Apply(b, o))
<1>1. CASE o.kind = "cancel"
  BY <1>1 DEF Apply, IsAccount, Kept
<1>2. CASE o.kind = "pay"
  <2>1. Apply(b, o) = [b EXCEPT !.lines[o.asset] = @ - o.amount]
    BY <1>2 DEF Apply
  <2> QED
    BY <2>1 DEF IsAccount, Kept
<1>3. CASE o.kind = "untrust"
  BY <1>3 DEF Apply, IsAccount, Drop, Kept
<1>4. CASE o.kind = "delete"
  BY <1>4 DEF Apply, IsAccount, Kept
<1>5. CASE o.kind = "merge"
  BY <1>5 DEF Apply, Gone, Kept
<1> QED
  BY <1>1, <1>2, <1>3, <1>4, <1>5 DEF AnyOp, AssetOp, Op

LEMMA RunKeeps ==
  ASSUME NEW a, IsAccount(a), NEW ops \in Seq(AnyOp)
  PROVE  /\ Run(a, ops) \in Ran /\ IsAccount(Run(a, ops).acct) /\ Kept(a, Run(a, ops).acct)
         /\ Run(a, ops).ok /\ Len(ops) > 0
              => Applies(a, ops[1]) /\ Kept(Apply(a, ops[1]), Run(a, ops).acct)
<1>1. PICK r : Runs(r, a, ops)
  BY RunSteps
<1> DEFINE N == Len(ops)
           First(n) == n > 0 /\ r[n].ok => Applies(a, ops[1]) /\ Kept(Apply(a, ops[1]), r[n].acct)
           T == {n \in Nat : n <= N => Kept(a, r[n].acct) /\ First(n)}
<1>2. N \in Nat /\ \A i \in 1..N : ops[i] \in AnyOp
  OBVIOUS
<1>3. /\ r[0] = [ok |-> TRUE, acct |-> a]
      /\ \A n \in 1..N : r[n] = After(r[n - 1], ops[n])
      /\ \A n \in 0..N : r[n] \in Ran
      /\ Run(a, ops) = r[N]
  BY <1>1 DEF Runs
<1>4. 0 \in T
  BY <1>3 DEF Kept
<1>5. ASSUME NEW n \in Nat, n \in T PROVE n + 1 \in T
  <2> SUFFICES ASSUME n + 1 <= N PROVE Kept(a, r[n + 1].acct) /\ First(n + 1)
    OBVIOUS
  <2>1. n + 1 \in 1..N /\ (n + 1) - 1 = n /\ n <= N /\ n \in 0..N
    BY <1>2
  <2>2. r[n + 1] = After(r[n], ops[n + 1])
    BY <1>3, <2>1
  <2>3. IsAccount(r[n].acct) /\ r[n].ok \in BOOLEAN
    BY <1>3, <2>1, AccountIn DEF Ran
  <2>4. Kept(a, r[n].acct) /\ First(n)
    BY <1>5, <2>1
  <2>5. ops[n + 1] \in AnyOp
    BY <1>2, <2>1
  <2>6. CASE r[n].ok /\ Applies(r[n].acct, ops[n + 1])
    <3>1. r[n + 1].acct = Apply(r[n].acct, ops[n + 1])
      BY <2>2, <2>6 DEF After
    <3>2. Kept(a, r[n + 1].acct)
      BY <3>1, <2>3, <2>4, <2>5, <2>6, KeptStep
    <3>3. CASE n = 0
      <4>1. r[n + 1].acct = Apply(a, ops[1]) /\ Applies(a, ops[1])
        BY <1>3, <2>6, <3>1, <3>3
      <4> QED
        BY <3>2, <4>1 DEF Kept
    <3>4. CASE n # 0
      <4>1. Applies(a, ops[1]) /\ Kept(Apply(a, ops[1]), r[n].acct)
        BY <2>4, <2>6, <3>4
      <4>2. Kept(Apply(a, ops[1]), r[n + 1].acct)
        BY <3>1, <4>1, <2>3, <2>5, <2>6, KeptStep
      <4> QED
        BY <3>2, <4>1, <4>2
    <3> QED
      BY <3>3, <3>4
  <2>7. CASE ~(r[n].ok /\ Applies(r[n].acct, ops[n + 1]))
    BY <2>2, <2>4, <2>7 DEF After
  <2> QED
    BY <2>6, <2>7
<1>6. N \in T
  <2>1. \A n \in Nat : n \in T
    <3> HIDE DEF T
    <3> QED
      BY <1>4, <1>5, NatSets
  <2> QED
    BY <2>1, <1>2
<1>7. Run(a, ops) \in Ran /\ IsAccount(Run(a, ops).acct)
  BY <1>2, <1>3, AccountIn DEF Ran
<1> QED
  BY <1>2, <1>3, <1>6, <1>7

\* Operations that all apply, and the accounts in between.
Plays(f, a, ops) ==
  /\ f[0] = a
  /\ \A n \in 1..Len(ops) : Applies(f[n - 1], ops[n]) /\ f[n] = Apply(f[n - 1], ops[n])

\* Accounts alike but for the sequence number and the lumens.
Same(a, b) == a.open = b.open /\ a.lines = b.lines /\ a.offers = b.offers /\ a.data = b.data

CleanOp == AssetOp \cup {Op("delete", "data", 0)}

LEMMA CleanIsOp == CleanOp \subseteq AnyOp
  BY DEF CleanOp, AnyOp

LEMMA PlaysTyped ==
  ASSUME NEW a, IsAccount(a), NEW ops \in Seq(AnyOp), NEW f, Plays(f, a, ops)
  PROVE  \A n \in 0..Len(ops) : IsAccount(f[n])
<1> DEFINE N == Len(ops)
           T == {n \in Nat : n <= N => IsAccount(f[n])}
<1>1. N \in Nat /\ \A i \in 1..N : ops[i] \in AnyOp
  OBVIOUS
<1>2. 0 \in T
  BY DEF Plays
<1>3. ASSUME NEW n \in Nat, n \in T PROVE n + 1 \in T
  <2> SUFFICES ASSUME n + 1 <= N PROVE IsAccount(f[n + 1])
    OBVIOUS
  <2>1. n + 1 \in 1..N /\ (n + 1) - 1 = n
    BY <1>1
  <2>2. Applies(f[n], ops[n + 1]) /\ f[n + 1] = Apply(f[n], ops[n + 1])
    BY <2>1 DEF Plays
  <2> QED
    BY <1>1, <1>3, <2>1, <2>2, ApplyTyped
<1>4. \A n \in Nat : n \in T
  <2> HIDE DEF T
  <2> QED
    BY <1>2, <1>3, NatSets
<1> QED
  BY <1>1, <1>4

\* What an operation does depends on no sequence number and no lumens.
LEMMA SameStep ==
  ASSUME NEW a, IsAccount(a), NEW b, IsAccount(b), Same(a, b), NEW o \in CleanOp, Applies(a, o)
  PROVE  Applies(b, o) /\ Same(Apply(a, o), Apply(b, o)) /\ Apply(b, o).seq = b.seq
<1>1. Applies(b, o)
  <2>1. \/ o.kind = "cancel" \/ o.kind = "pay" \/ o.kind = "untrust" \/ o.kind = "delete"
    BY DEF CleanOp, AssetOp, Op
  <2> QED
    BY <2>1 DEF Applies, Same
<1>2. CASE o.kind = "cancel"
  BY <1>1, <1>2 DEF Apply, IsAccount, Same
<1>3. CASE o.kind = "pay"
  <2>1. /\ Apply(a, o) = [a EXCEPT !.lines[o.asset] = @ - o.amount]
        /\ Apply(b, o) = [b EXCEPT !.lines[o.asset] = @ - o.amount]
    BY <1>3 DEF Apply
  <2> QED
    BY <1>1, <2>1 DEF IsAccount, Same
<1>4. CASE o.kind = "untrust"
  BY <1>1, <1>4 DEF Apply, IsAccount, Same
<1>5. CASE o.kind = "delete"
  BY <1>1, <1>5 DEF Apply, IsAccount, Same
<1> QED
  BY <1>2, <1>3, <1>4, <1>5 DEF CleanOp, AssetOp, Op
\* What plays on one account runs on another that is alike.
LEMMA PlaysRun ==
  ASSUME NEW a, IsAccount(a), NEW ops \in Seq(CleanOp), NEW f, Plays(f, a, ops),
         NEW b, IsAccount(b), Same(a, b)
  PROVE  /\ Run(b, ops).ok /\ Same(f[Len(ops)], Run(b, ops).acct)
         /\ Run(b, ops).acct.seq = b.seq /\ IsAccount(Run(b, ops).acct)
<1>0. ops \in Seq(AnyOp)
  BY CleanIsOp, SeqMonotonic
<1>1. PICK r : Runs(r, b, ops)
  BY <1>0, RunSteps
<1> DEFINE N == Len(ops)
           Alike(n) == r[n].ok /\ Same(f[n], r[n].acct) /\ r[n].acct.seq = b.seq
           T == {n \in Nat : n <= N => Alike(n)}
<1>2. N \in Nat /\ \A i \in 1..N : ops[i] \in CleanOp
  OBVIOUS
<1>3. /\ r[0] = [ok |-> TRUE, acct |-> b]
      /\ \A n \in 1..N : r[n] = After(r[n - 1], ops[n])
      /\ \A n \in 0..N : r[n] \in Ran
      /\ Run(b, ops) = r[N]
  BY <1>1 DEF Runs
<1>4. 0 \in T
  BY <1>3 DEF Plays
<1>5. ASSUME NEW n \in Nat, n \in T PROVE n + 1 \in T
  <2> SUFFICES ASSUME n + 1 <= N PROVE Alike(n + 1)
    OBVIOUS
  <2>1. n + 1 \in 1..N /\ (n + 1) - 1 = n /\ n <= N /\ n \in 0..N
    BY <1>2
  <2>2. r[n + 1] = After(r[n], ops[n + 1])
    BY <1>3, <2>1
  <2>3. Applies(f[n], ops[n + 1]) /\ f[n + 1] = Apply(f[n], ops[n + 1])
    BY <2>1 DEF Plays
  <2>4. Alike(n)
    BY <1>5, <2>1
  <2>5. IsAccount(f[n]) /\ IsAccount(r[n].acct)
    BY <1>0, <1>3, <2>1, PlaysTyped, AccountIn DEF Ran
  <2>6. ops[n + 1] \in CleanOp
    BY <1>2, <2>1
  <2>7. /\ Applies(r[n].acct, ops[n + 1]) /\ Same(f[n + 1], Apply(r[n].acct, ops[n + 1]))
        /\ Apply(r[n].acct, ops[n + 1]).seq = r[n].acct.seq
    BY <2>3, <2>4, <2>5, <2>6, SameStep
  <2> QED
    BY <2>2, <2>4, <2>7 DEF After
<1>6. N \in T
  <2>1. \A n \in Nat : n \in T
    <3> HIDE DEF T
    <3> QED
      BY <1>4, <1>5, NatSets
  <2> QED
    BY <2>1, <1>2
<1> QED
  BY <1>0, <1>2, <1>3, <1>6, RunKeeps

\* Sequences of operations play one after the other, and parts play on their own.
Chained(h, f, g, a, s, t) ==
  /\ Plays(h, a, s \o t)
  /\ \A n \in 0..Len(s) : h[n] = f[n]
  /\ \A n \in 0..Len(t) : h[Len(s) + n] = g[n]

LEMMA PlaysBoth ==
  ASSUME NEW a, NEW s \in Seq(AnyOp), NEW t \in Seq(AnyOp),
         NEW f, Plays(f, a, s), NEW g, Plays(g, f[Len(s)], t)
  PROVE  \E h : Chained(h, f, g, a, s, t)
<1> DEFINE M == Len(s)
           N == Len(t)
           h == [n \in 0..(M + N) |-> IF n <= M THEN f[n] ELSE g[n - M]]
<1>1. M \in Nat /\ N \in Nat
  OBVIOUS
<1>2. /\ Len(s \o t) = M + N
      /\ \A i \in 1..(M + N) : (s \o t)[i] = IF i <= M THEN s[i] ELSE t[i - M]
  BY ConcatProperties
<1>3. \A n \in 0..M : h[n] = f[n]
  BY <1>1
<1>4. \A n \in 0..N : h[M + n] = g[n]
  <2> SUFFICES ASSUME NEW n \in 0..N PROVE h[M + n] = g[n]
    OBVIOUS
  <2>1. CASE n = 0
    BY <1>1, <2>1 DEF Plays
  <2>2. CASE n # 0
    <3>1. M + n \in 0..(M + N) /\ ~(M + n <= M) /\ (M + n) - M = n
      BY <1>1, <2>2
    <3> QED
      BY <3>1
  <2> QED
    BY <2>1, <2>2
<1>5. h[0] = a
  BY <1>1 DEF Plays
<1>6. ASSUME NEW n \in 1..(M + N)
      PROVE  Applies(h[n - 1], (s \o t)[n]) /\ h[n] = Apply(h[n - 1], (s \o t)[n])
  <2>1. CASE n <= M
    <3>1. n \in 1..M /\ n - 1 \in 0..M /\ n \in 0..M
      BY <1>1, <2>1
    <3>2. h[n] = f[n] /\ h[n - 1] = f[n - 1] /\ (s \o t)[n] = s[n]
      BY <1>2, <1>3, <2>1, <3>1
    <3> HIDE DEF h
    <3> QED
      BY <3>1, <3>2 DEF Plays
  <2>2. CASE ~(n <= M)
    <3>1. n - M \in 1..N /\ (n - M) - 1 \in 0..N /\ n - M \in 0..N
      BY <1>1, <2>2
    <3>2. M + (n - M) = n /\ M + ((n - M) - 1) = n - 1
      BY <1>1
    <3> HIDE DEF h
    <3>3. h[n] = g[n - M] /\ h[n - 1] = g[(n - M) - 1] /\ (s \o t)[n] = t[n - M]
      BY <1>2, <1>4, <2>2, <3>1, <3>2
    <3> QED
      BY <3>1, <3>3 DEF Plays
  <2> QED
    BY <2>1, <2>2
<1> HIDE DEF h
<1>7. Plays(h, a, s \o t)
  BY <1>2, <1>5, <1>6 DEF Plays
<1> QED
  BY <1>3, <1>4, <1>7 DEF Chained

LEMMA CutInside ==
  ASSUME NEW S, NEW ops \in Seq(S), NEW i \in 0..Len(ops), NEW j \in 0..Len(ops), i < j
  PROVE  /\ i \in Nat /\ j \in Nat /\ SubSeq(ops, i + 1, j) \in Seq(S)
         /\ Len(SubSeq(ops, i + 1, j)) = j - i /\ j - i > 0 /\ i + 1 \in 1..Len(ops)
         /\ SubSeq(ops, i + 1, j)[1] = ops[i + 1]
<1>1. i \in Nat /\ j \in Nat /\ Len(ops) \in Nat
  OBVIOUS
<1>2. \A x \in (i + 1)..j : ops[x] \in S
  BY <1>1
<1>3. i + 1 \in Int /\ j \in Int /\ i + 1 <= j /\ j - (i + 1) + 1 = j - i /\ 1 \in 1..(j - (i + 1) + 1)
  BY <1>1
<1>4. /\ SubSeq(ops, i + 1, j) \in Seq(S) /\ Len(SubSeq(ops, i + 1, j)) = j - (i + 1) + 1
      /\ \A x \in 1..(j - (i + 1) + 1) : SubSeq(ops, i + 1, j)[x] = ops[(i + 1) + x - 1]
  BY <1>2, <1>3, SubSeqProperties
<1>5. (i + 1) + 1 - 1 = i + 1
  BY <1>1
<1> QED
  BY <1>1, <1>3, <1>4, <1>5

PartOf(q, f, ops, m, n) ==
  Plays(q, f[m], SubSeq(ops, m + 1, n)) /\ \A i \in 0..(n - m) : q[i] = f[m + i]

LEMMA PlaysPart ==
  ASSUME NEW a, NEW ops \in Seq(AnyOp), NEW f, Plays(f, a, ops),
         NEW m \in 0..Len(ops), NEW n \in 0..Len(ops), m <= n
  PROVE  \E q : PartOf(q, f, ops, m, n)
<1> DEFINE span == SubSeq(ops, m + 1, n)
           h == [i \in 0..(n - m) |-> f[m + i]]
<1>1. m \in Nat /\ n \in Nat /\ Len(ops) \in Nat /\ n - m \in Nat
  OBVIOUS
<1>2. \A i \in (m + 1)..n : ops[i] \in AnyOp
  BY <1>1
<1>3. /\ Len(span) = n - m
      /\ \A i \in 1..(n - m) : span[i] = ops[m + i]
  <2>1. m + 1 \in Int /\ n \in Int /\ n - (m + 1) + 1 = n - m
    BY <1>1
  <2>2. /\ Len(span) = IF m + 1 <= n THEN n - (m + 1) + 1 ELSE 0
        /\ \A i \in 1..(n - (m + 1) + 1) : span[i] = ops[(m + 1) + i - 1]
    BY <1>2, <2>1, SubSeqProperties
  <2>3. \A i \in 1..(n - m) : (m + 1) + i - 1 = m + i
    BY <1>1
  <2> HIDE DEF span
  <2> QED
    BY <1>1, <2>1, <2>2, <2>3
<1>4. h[0] = f[m]
  BY <1>1
<1>5. ASSUME NEW i \in 1..(n - m) PROVE Applies(h[i - 1], span[i]) /\ h[i] = Apply(h[i - 1], span[i])
  <2>1. m + i \in 1..Len(ops) /\ (m + i) - 1 = m + (i - 1) /\ i - 1 \in 0..(n - m) /\ i \in 0..(n - m)
    BY <1>1
  <2>2. h[i - 1] = f[m + (i - 1)] /\ h[i] = f[m + i]
    BY <2>1
  <2>3. Applies(f[(m + i) - 1], ops[m + i]) /\ f[m + i] = Apply(f[(m + i) - 1], ops[m + i])
    BY <2>1 DEF Plays
  <2> HIDE DEF h, span
  <2> QED
    BY <1>3, <2>1, <2>2, <2>3
<1>6. Plays(h, f[m], span)
  <2> HIDE DEF h, span
  <2> QED
    BY <1>3, <1>4, <1>5 DEF Plays
<1>8. PartOf(h, f, ops, m, n)
  <2>1. \A i \in 0..(n - m) : h[i] = f[m + i]
    OBVIOUS
  <2> HIDE DEF h, span
  <2> QED
    BY <1>6, <2>1 DEF PartOf, span
<1> HIDE DEF h
<1> QED
  BY <1>8

-----------------------------------------------------------------------------
(***************************************************************************)
(* The operations that collectCleanupOps lists, and what they do.          *)
(***************************************************************************)
Cancels(a) == [i \in 1..Cardinality(a.offers) |-> Op("cancel", SetToSeq(a.offers)[i], 0)]
Payments(a) == FlattenSeq([i \in 1..Cardinality(DOMAIN a.lines) |-> LineOps(a, SetToSeq(DOMAIN a.lines)[i])])
Deletes(a) == IF a.data THEN <<Op("delete", "data", 0)>> ELSE <<>>

\* The account without its offers, and without its trustlines.
NoOffers(a) == [a EXCEPT !.offers = {}]
NoLines(a) == [NoOffers(a) EXCEPT !.lines = <<>>]

LEMMA FiniteAccount ==
  ASSUME NEW a, IsAccount(a)
  PROVE  IsFiniteSet(a.offers) /\ IsFiniteSet(DOMAIN a.lines) /\ IsFiniteSet(HeldLines(a))
<1>1. a.offers \in SUBSET Assets /\ DOMAIN a.lines \in SUBSET Assets /\ HeldLines(a) \in SUBSET Assets
  BY DEF IsAccount, HeldLines
<1> QED
  BY <1>1, CleanupAssumption, FS_Subset

\* Each kind of operation by itself.
LEMMA Cancel ==
  ASSUME NEW a, NEW x
  PROVE  /\ Applies(a, Op("cancel", x, 0)) <=> x \in a.offers
         /\ Apply(a, Op("cancel", x, 0)) = [a EXCEPT !.offers = @ \ {x}]
<1>1. PICK o : o = Op("cancel", x, 0)
  OBVIOUS
<1>2. o.kind = "cancel" /\ o.asset = x
  BY <1>1 DEF Op
<1> QED
  BY <1>1, <1>2 DEF Applies, Apply

LEMMA Pay ==
  ASSUME NEW a, NEW x, NEW n
  PROVE  /\ Applies(a, Op("pay", x, n)) <=>
              x \in DOMAIN a.lines \cap DestTrusts /\ DestExists /\ x \notin a.offers /\ a.lines[x] >= n
         /\ Apply(a, Op("pay", x, n)) = [a EXCEPT !.lines[x] = @ - n]
<1>1. PICK o : o = Op("pay", x, n)
  OBVIOUS
<1>2. o.kind = "pay" /\ o.asset = x /\ o.amount = n
  BY <1>1 DEF Op
<1> QED
  BY <1>1, <1>2 DEF Applies, Apply

LEMMA Untrust ==
  ASSUME NEW a, NEW x
  PROVE  /\ Applies(a, Op("untrust", x, 0)) <=> x \in DOMAIN a.lines /\ a.lines[x] = 0 /\ x \notin a.offers
         /\ Apply(a, Op("untrust", x, 0)) = [a EXCEPT !.lines = Drop(@, x)]
<1>1. PICK o : o = Op("untrust", x, 0)
  OBVIOUS
<1>2. o.kind = "untrust" /\ o.asset = x
  BY <1>1 DEF Op
<1> QED
  BY <1>1, <1>2 DEF Applies, Apply

LEMMA Delete ==
  ASSUME NEW a
  PROVE  /\ Applies(a, Op("delete", "data", 0)) <=> a.data
         /\ Apply(a, Op("delete", "data", 0)) = [a EXCEPT !.data = FALSE]
<1>1. PICK o : o = Op("delete", "data", 0)
  OBVIOUS
<1>2. o.kind = "delete"
  BY <1>1 DEF Op
<1> QED
  BY <1>1, <1>2 DEF Applies, Apply

LEMMA Merge ==
  ASSUME NEW a
  PROVE  /\ Applies(a, Op("merge", "xlm", 0)) <=> Subentries(a) = 0 /\ DestExists
         /\ Apply(a, Op("merge", "xlm", 0)) = Gone
<1>1. PICK o : o = Op("merge", "xlm", 0)
  OBVIOUS
<1>2. o.kind = "merge"
  BY <1>1 DEF Op
<1> QED
  BY <1>1, <1>2 DEF Applies, Apply

LEMMA CancelsPlay ==
  ASSUME NEW a, IsAccount(a)
  PROVE  /\ Cancels(a) \in Seq(CleanOp) /\ Len(Cancels(a)) = Cardinality(a.offers)
         /\ \A i \in 1..Len(Cancels(a)) : Cancels(a)[i].kind = "cancel"
         /\ \E f : Plays(f, a, Cancels(a)) /\ f[Len(Cancels(a))] = NoOffers(a)
<1> DEFINE N == Cardinality(a.offers)
           s == SetToSeq(a.offers)
           Left(n) == {s[j] : j \in (n + 1)..N}
           f == [n \in 0..N |-> [a EXCEPT !.offers = Left(n)]]
           ops == Cancels(a)
<1>1. /\ N \in Nat /\ s \in [1..N -> a.offers]
      /\ \A i, j \in 1..N : s[i] = s[j] => i = j
      /\ \A x \in a.offers : \E i \in 1..N : s[i] = x
  BY FiniteAccount, SetListed
<1> HIDE DEF s, N
<1>2. ops = [i \in 1..N |-> Op("cancel", s[i], 0)]
  BY DEF Cancels, s, N
<1>3. \A i \in 1..N : s[i] \in Assets
  BY <1>1 DEF IsAccount
<1>4. \A i \in 1..N : Op("cancel", s[i], 0) \in CleanOp
  BY <1>3 DEF CleanOp, AssetOp, Op
<1>5. ops \in Seq(CleanOp) /\ Len(ops) = N
  BY <1>1, <1>2, <1>4
<1>6. \A i \in 1..N : ops[i] = Op("cancel", s[i], 0)
  BY <1>2
<1>7. a = [open |-> a.open, seq |-> a.seq, xlm |-> a.xlm, lines |-> a.lines, offers |-> a.offers, data |-> a.data]
  BY DEF IsAccount
<1>8. f[0] = a
  <2>1. Left(0) = a.offers
    BY <1>1
  <2>2. [a EXCEPT !.offers = a.offers] = a
    BY <1>7
  <2> QED
    BY <1>1, <2>1, <2>2
<1>9. ASSUME NEW n \in 1..N PROVE Applies(f[n - 1], ops[n]) /\ f[n] = Apply(f[n - 1], ops[n])
  <2>1. n - 1 \in 0..N /\ n \in 0..N /\ (n - 1) + 1 = n
    BY <1>1
  <2>2. s[n] \in Left(n - 1) /\ Left(n) = Left(n - 1) \ {s[n]}
    <3>1. Left(n - 1) = {s[j] : j \in n..N}
      BY <2>1
    <3>2. n \in n..N /\ \A j \in n..N : j = n \/ j \in (n + 1)..N
      BY <1>1
    <3>3. \A j \in (n + 1)..N : j \in n..N /\ j # n /\ j \in 1..N
      BY <1>1
    <3>4. \A j \in (n + 1)..N : s[j] # s[n]
      BY <1>1, <3>3
    <3> QED
      BY <3>1, <3>2, <3>3, <3>4
  <2>3. f[n - 1] = [a EXCEPT !.offers = Left(n - 1)] /\ f[n] = [a EXCEPT !.offers = Left(n)]
    BY <2>1
  <2> HIDE DEF f, Left, ops
  <2>4. /\ [a EXCEPT !.offers = Left(n - 1)].offers = Left(n - 1)
        /\ [[a EXCEPT !.offers = Left(n - 1)] EXCEPT !.offers = Left(n - 1) \ {s[n]}]
              = [a EXCEPT !.offers = Left(n - 1) \ {s[n]}]
    BY <1>7
  <2>a. s[n] \in f[n - 1].offers
    BY <2>2, <2>3, <2>4
  <2>b. ops[n] = Op("cancel", s[n], 0)
    BY <1>6
  <2>5. Applies(f[n - 1], ops[n])
    BY <2>a, <2>b, Cancel
  <2>6. Apply(f[n - 1], ops[n]) = [f[n - 1] EXCEPT !.offers = @ \ {s[n]}]
    BY <1>6, Cancel
  <2>7. [f[n - 1] EXCEPT !.offers = @ \ {s[n]}] = [a EXCEPT !.offers = Left(n)]
    BY <2>2, <2>3, <2>4
  <2> QED
    BY <2>3, <2>5, <2>6, <2>7
<1>10. f[N] = NoOffers(a)
  <2>1. Left(N) = {}
    BY <1>1
  <2>2. f[N] = [a EXCEPT !.offers = Left(N)]
    BY <1>1
  <2> HIDE DEF f, Left
  <2> QED
    BY <2>1, <2>2 DEF NoOffers
<1>11. Plays(f, a, ops)
  <2> HIDE DEF f, ops
  <2> QED
    BY <1>5, <1>8, <1>9 DEF Plays
<1> HIDE DEF f
<1> QED
  BY <1>5, <1>6, <1>10, <1>11, <1>1 DEF N, Op

LEMMA Pair ==
  ASSUME NEW u, NEW v
  PROVE  <<u>> \o <<v>> = <<u, v>>
<1>1. <<u>> \in Seq({u, v}) /\ <<v>> \in Seq({u, v}) /\ <<u, v>> \in Seq({u, v})
  OBVIOUS
<1>2. /\ <<u>> \o <<v>> \in Seq({u, v}) /\ Len(<<u>> \o <<v>>) = 2
      /\ (<<u>> \o <<v>>)[1] = u /\ (<<u>> \o <<v>>)[2] = v
  BY <1>1, ConcatProperties
<1>3. Len(<<u, v>>) = 2 /\ <<u, v>>[1] = u /\ <<u, v>>[2] = v
  OBVIOUS
<1>4. \A i \in 1..2 : i = 1 \/ i = 2
  OBVIOUS
<1> QED
  BY <1>1, <1>2, <1>3, <1>4, SeqEqual

LEMMA LineOpsTyped ==
  ASSUME NEW a, IsAccount(a), NEW x \in DOMAIN a.lines
  PROVE  /\ LineOps(a, x) \in Seq(CleanOp)
         /\ Len(LineOps(a, x)) = IF x \in HeldLines(a) THEN 2 ELSE 1
<1>1. x \in Assets /\ a.lines[x] \in Nat
  BY DEF IsAccount
<1>2. Op("pay", x, a.lines[x]) \in CleanOp /\ Op("untrust", x, 0) \in CleanOp
  BY <1>1 DEF CleanOp, AssetOp, Op
<1>3. x \in HeldLines(a) <=> a.lines[x] > 0
  BY DEF HeldLines
<1>4. CASE a.lines[x] > 0
  <2>1. LineOps(a, x) = <<Op("pay", x, a.lines[x])>> \o <<Op("untrust", x, 0)>>
    BY <1>4 DEF LineOps
  <2> QED
    BY <1>2, <1>3, <1>4, <2>1
<1>5. CASE ~(a.lines[x] > 0)
  <2>1. LineOps(a, x) = <<>> \o <<Op("untrust", x, 0)>>
    BY <1>5 DEF LineOps
  <2> QED
    BY <1>2, <1>3, <1>5, <2>1
<1> QED
  BY <1>4, <1>5

LEMMA LineOpsPlay ==
  ASSUME NEW a, IsAccount(a), NEW c, IsAccount(c), c.offers = {}, DestExists, DestTrusts = Assets,
         NEW x \in DOMAIN a.lines, x \in DOMAIN c.lines, c.lines[x] = a.lines[x]
  PROVE  \E g : Plays(g, c, LineOps(a, x)) /\ g[Len(LineOps(a, x))] = [c EXCEPT !.lines = Drop(@, x)]
<1> DEFINE after == [c EXCEPT !.lines = Drop(@, x)]
<1>1. x \in Assets /\ c.lines[x] \in Nat /\ c.lines \in [DOMAIN c.lines -> Nat]
  BY DEF IsAccount
<1>2. CASE a.lines[x] > 0
  <2> DEFINE paid == [c EXCEPT !.lines = [@ EXCEPT ![x] = 0]]
             g == [n \in 0..2 |-> IF n = 0 THEN c ELSE IF n = 1 THEN paid ELSE after]
  <2>1. LineOps(a, x) = <<Op("pay", x, c.lines[x]), Op("untrust", x, 0)>>
    <3>1. LineOps(a, x) = <<Op("pay", x, c.lines[x])>> \o <<Op("untrust", x, 0)>>
      BY <1>2 DEF LineOps
    <3> QED
      BY <3>1, Pair
  <2>a. PICK m : m = c.lines[x]
    OBVIOUS
  <2>b. m \in Nat /\ m - m = 0 /\ m >= m
    BY <1>1, <2>a
  <2>c. Applies(c, Op("pay", x, m))
    BY <1>1, <2>a, <2>b, Pay
  <2>d. Apply(c, Op("pay", x, m)) = [c EXCEPT !.lines[x] = @ - m]
    BY Pay
  <2>e. [c EXCEPT !.lines[x] = @ - m] = [c EXCEPT !.lines = [@ EXCEPT ![x] = 0]]
    BY <2>a, <2>b
  <2>2. Applies(c, Op("pay", x, c.lines[x])) /\ Apply(c, Op("pay", x, c.lines[x])) = paid
    BY <2>a, <2>c, <2>d, <2>e
  <2>4. /\ paid.lines = [c.lines EXCEPT ![x] = 0] /\ paid.offers = {}
        /\ [paid EXCEPT !.lines = Drop(paid.lines, x)] = [c EXCEPT !.lines = Drop(paid.lines, x)]
    BY <1>1 DEF IsAccount
  <2>5. Drop(paid.lines, x) = Drop(c.lines, x)
    BY <1>1, <2>4 DEF Drop
  <2>6. Applies(paid, Op("untrust", x, 0)) /\ Apply(paid, Op("untrust", x, 0)) = after
    <3>1. x \in DOMAIN paid.lines /\ paid.lines[x] = 0 /\ x \notin paid.offers
      BY <1>1, <2>4
    <3>2. Apply(paid, Op("untrust", x, 0)) = [paid EXCEPT !.lines = Drop(paid.lines, x)]
      BY Untrust
    <3>3. Applies(paid, Op("untrust", x, 0))
      BY <3>1, Untrust
    <3> HIDE DEF paid
    <3> QED
      BY <2>4, <2>5, <3>2, <3>3
  <2>7. g[0] = c /\ g[1] = paid /\ g[2] = after
    <3> HIDE DEF paid, after
    <3> QED
      OBVIOUS
  <2> HIDE DEF g, paid, after
  <2>8. Len(LineOps(a, x)) = 2 /\ LineOps(a, x)[1] = Op("pay", x, c.lines[x]) /\ LineOps(a, x)[2] = Op("untrust", x, 0)
    BY <2>1
  <2>9. \A n \in 1..2 : (n = 1 /\ n - 1 = 0) \/ (n = 2 /\ n - 1 = 1)
    OBVIOUS
  <2>10. Plays(g, c, LineOps(a, x))
    BY <2>2, <2>6, <2>7, <2>8, <2>9 DEF Plays
  <2> QED
    BY <2>7, <2>8, <2>10 DEF after
<1>3. CASE ~(a.lines[x] > 0)
  <2> DEFINE g == [n \in 0..1 |-> IF n = 0 THEN c ELSE after]
  <2>1. LineOps(a, x) = <<Op("untrust", x, 0)>>
    <3>1. LineOps(a, x) = <<>> \o <<Op("untrust", x, 0)>>
      BY <1>3 DEF LineOps
    <3> QED
      BY <3>1
  <2>2. Applies(c, Op("untrust", x, 0)) /\ Apply(c, Op("untrust", x, 0)) = after
    <3>1. x \in DOMAIN c.lines /\ c.lines[x] = 0 /\ x \notin c.offers
      BY <1>1, <1>3
    <3> QED
      BY <3>1, Untrust
  <2>3. g[0] = c /\ g[1] = after
    OBVIOUS
  <2> HIDE DEF g, after
  <2>4. Len(LineOps(a, x)) = 1 /\ LineOps(a, x)[1] = Op("untrust", x, 0)
    BY <2>1
  <2>5. \A n \in 1..1 : n = 1 /\ n - 1 = 0
    OBVIOUS
  <2>6. Plays(g, c, LineOps(a, x))
    BY <2>2, <2>3, <2>4, <2>5 DEF Plays
  <2> QED
    BY <2>3, <2>4, <2>6 DEF after
<1> QED
  BY <1>2, <1>3

\* The trustlines go one by one, in the order they are listed.
LEMMA PaymentsListed ==
  ASSUME NEW a, IsAccount(a)
  PROVE  \E f : LET N == Cardinality(DOMAIN a.lines)
                    s == SetToSeq(DOMAIN a.lines)
                IN  /\ f \in [0..N -> Seq(CleanOp)] /\ f[0] = <<>> /\ f[N] = Payments(a)
                    /\ \A i \in 1..N : f[i] = f[i - 1] \o LineOps(a, s[i])
<1> DEFINE N == Cardinality(DOMAIN a.lines)
           s == SetToSeq(DOMAIN a.lines)
           seqs == [i \in 1..N |-> LineOps(a, s[i])]
<1>1. N \in Nat /\ s \in [1..N -> DOMAIN a.lines]
  BY FiniteAccount, SetListed
<1>2. Payments(a) = FlattenSeq(seqs)
  BY DEF Payments
<1> HIDE DEF N, s
<1>3. \A i \in 1..N : LineOps(a, s[i]) \in Seq(CleanOp)
  BY <1>1, LineOpsTyped
<1>4. seqs \in Seq(Seq(CleanOp)) /\ Len(seqs) = N /\ \A i \in 1..N : seqs[i] = LineOps(a, s[i])
  BY <1>1, <1>3
<1> HIDE DEF seqs
<1>5. CASE N = 0
  <2> DEFINE f == [i \in 0..N |-> <<>>]
  <2>1. seqs = <<>>
    BY <1>4, <1>5
  <2>2. Payments(a) = <<>>
    BY <1>2, <2>1, FlattenedNone
  <2>3. f \in [0..N -> Seq(CleanOp)] /\ f[0] = <<>> /\ f[N] = Payments(a)
    BY <1>5, <2>2
  <2>4. \A i \in 1..N : f[i] = f[i - 1] \o LineOps(a, s[i])
    BY <1>5
  <2> HIDE DEF f
  <2> QED
    BY <2>3, <2>4 DEF N, s
<1>6. CASE N # 0
  <2>1. PICK e \in [1..N -> Seq(CleanOp)] :
          /\ e[1] = seqs[1]
          /\ \A i \in 1..N : i < N => e[i + 1] = e[i] \o seqs[i + 1]
          /\ FlattenSeq(seqs) = e[N]
    <3>1. Len(seqs) # 0
      BY <1>4, <1>6
    <3> QED
      BY <1>4, <3>1, Flattened
  <2> DEFINE f == [i \in 0..N |-> IF i = 0 THEN <<>> ELSE e[i]]
  <2>2. f \in [0..N -> Seq(CleanOp)] /\ f[0] = <<>> /\ f[N] = Payments(a)
    BY <1>1, <1>2, <1>6, <2>1
  <2>3. ASSUME NEW i \in 1..N PROVE f[i] = f[i - 1] \o LineOps(a, s[i])
    <3>1. CASE i = 1
      <4>1. f[i] = seqs[1] /\ f[i - 1] = <<>>
        BY <1>1, <2>1, <3>1
      <4>2. seqs[1] = LineOps(a, s[1]) /\ LineOps(a, s[1]) \in Seq(CleanOp)
        BY <1>3, <1>4, <3>1
      <4> HIDE DEF f
      <4> QED
        BY <3>1, <4>1, <4>2, ConcatEmptySeq
    <3>2. CASE i # 1
      <4>1. i - 1 \in 1..N /\ i - 1 < N /\ (i - 1) + 1 = i /\ i - 1 # 0 /\ i # 0 /\ i - 1 \in 0..N /\ i \in 0..N
        BY <1>1, <3>2
      <4>2. e[(i - 1) + 1] = e[i - 1] \o seqs[(i - 1) + 1]
        BY <2>1, <4>1
      <4>3. f[i] = e[i] /\ f[i - 1] = e[i - 1]
        BY <4>1
      <4> HIDE DEF f
      <4> QED
        BY <1>4, <4>1, <4>2, <4>3
    <3> QED
      BY <3>1, <3>2
  <2> HIDE DEF f
  <2> QED
    BY <2>2, <2>3 DEF N, s
<1> QED
  BY <1>5, <1>6

LEMMA PaymentsTyped ==
  ASSUME NEW a, IsAccount(a)
  PROVE  /\ Payments(a) \in Seq(CleanOp)
         /\ Len(Payments(a)) = Cardinality(DOMAIN a.lines) + Cardinality(HeldLines(a))
<1> DEFINE N == Cardinality(DOMAIN a.lines)
           s == SetToSeq(DOMAIN a.lines)
           H(n) == {s[j] : j \in 1..n} \cap HeldLines(a)
<1>1. /\ N \in Nat /\ s \in [1..N -> DOMAIN a.lines]
      /\ \A i, j \in 1..N : s[i] = s[j] => i = j
      /\ \A x \in DOMAIN a.lines : \E i \in 1..N : s[i] = x
  BY FiniteAccount, SetListed
<1>2. PICK f : /\ f \in [0..N -> Seq(CleanOp)] /\ f[0] = <<>> /\ f[N] = Payments(a)
               /\ \A i \in 1..N : f[i] = f[i - 1] \o LineOps(a, s[i])
  BY PaymentsListed
<1> HIDE DEF N, s
<1> DEFINE T == {n \in Nat : n <= N => Len(f[n]) = n + Cardinality(H(n))}
<1>3. 0 \in T
  <2>1. H(0) = {}
    OBVIOUS
  <2>2. Len(f[0]) = 0 /\ Cardinality(H(0)) = 0
    BY <1>2, <2>1, FS_EmptySet
  <2> HIDE DEF H
  <2> QED
    BY <2>2
<1>4. ASSUME NEW n \in Nat, n \in T PROVE n + 1 \in T
  <2> SUFFICES ASSUME n + 1 <= N PROVE Len(f[n + 1]) = (n + 1) + Cardinality(H(n + 1))
    OBVIOUS
  <2>1. n + 1 \in 1..N /\ (n + 1) - 1 = n /\ n <= N /\ n \in 0..N
    BY <1>1
  <2>2. s[n + 1] \in DOMAIN a.lines
    BY <1>1, <2>1
  <2>3. f[n] \in Seq(CleanOp) /\ f[n + 1] = f[n] \o LineOps(a, s[n + 1])
    BY <1>2, <2>1
  <2>4. /\ LineOps(a, s[n + 1]) \in Seq(CleanOp)
        /\ Len(LineOps(a, s[n + 1])) = IF s[n + 1] \in HeldLines(a) THEN 2 ELSE 1
    BY <2>2, LineOpsTyped
  <2>5. Len(f[n + 1]) = Len(f[n]) + Len(LineOps(a, s[n + 1]))
    BY <2>3, <2>4, ConcatProperties
  <2>6. Len(f[n]) = n + Cardinality(H(n))
    BY <1>4, <2>1
  <2>7. IsFiniteSet(H(n)) /\ Cardinality(H(n)) \in Nat
    <3>1. H(n) \in SUBSET HeldLines(a)
      OBVIOUS
    <3> HIDE DEF H
    <3> QED
      BY <3>1, FiniteAccount, FS_Subset, FS_CardinalityType
  <2>8. \A j \in 1..(n + 1) : j \in 1..n \/ j = n + 1
    OBVIOUS
  <2>9. s[n + 1] \notin H(n)
    <3> SUFFICES ASSUME NEW j \in 1..n, s[j] = s[n + 1] PROVE FALSE
      OBVIOUS
    <3>1. j \in 1..N /\ j # n + 1
      BY <1>1, <2>1
    <3> QED
      BY <1>1, <2>1, <3>1
  <2>10. CASE s[n + 1] \in HeldLines(a)
    <3>1. H(n + 1) = H(n) \cup {s[n + 1]}
      BY <2>8, <2>10
    <3>2. Cardinality(H(n + 1)) = Cardinality(H(n)) + 1
      <4> HIDE DEF H
      <4> QED
        BY <2>7, <2>9, <3>1, FS_AddElement
    <3> HIDE DEF H
    <3> QED
      BY <2>4, <2>5, <2>6, <2>7, <2>10, <3>2
  <2>11. CASE s[n + 1] \notin HeldLines(a)
    <3>1. H(n + 1) = H(n)
      BY <2>8, <2>11
    <3> HIDE DEF H
    <3> QED
      BY <2>4, <2>5, <2>6, <2>7, <2>11, <3>1
  <2> QED
    BY <2>10, <2>11
<1>5. Len(f[N]) = N + Cardinality(H(N))
  <2>1. \A n \in Nat : n \in T
    <3> HIDE DEF T
    <3> QED
      BY <1>3, <1>4, NatSets
  <2> QED
    BY <1>1, <2>1
<1>6. H(N) = HeldLines(a)
  BY <1>1 DEF HeldLines
<1>7. f[N] \in Seq(CleanOp)
  BY <1>1, <1>2
<1> QED
  BY <1>2, <1>5, <1>6, <1>7 DEF N

LEMMA WithoutOffers ==
  ASSUME NEW a, IsAccount(a)
  PROVE  /\ NoOffers(a) = [open |-> a.open, seq |-> a.seq, xlm |-> a.xlm, lines |-> a.lines,
                           offers |-> {}, data |-> a.data]
         /\ NoLines(a) = [open |-> a.open, seq |-> a.seq, xlm |-> a.xlm, lines |-> <<>>,
                          offers |-> {}, data |-> a.data]
<1>1. a = [open |-> a.open, seq |-> a.seq, xlm |-> a.xlm, lines |-> a.lines, offers |-> a.offers, data |-> a.data]
  BY DEF IsAccount
<1>2. PICK o, q, m, l, f, d : a = [open |-> o, seq |-> q, xlm |-> m, lines |-> l, offers |-> f, data |-> d]
  BY <1>1
<1>3. NoOffers(a) = [open |-> o, seq |-> q, xlm |-> m, lines |-> l, offers |-> {}, data |-> d]
  BY <1>2 DEF NoOffers
<1>4. NoLines(a) = [open |-> o, seq |-> q, xlm |-> m, lines |-> <<>>, offers |-> {}, data |-> d]
  <2>1. PICK c : c = NoOffers(a)
    OBVIOUS
  <2>2. c = [open |-> o, seq |-> q, xlm |-> m, lines |-> l, offers |-> {}, data |-> d]
    BY <1>3, <2>1
  <2>3. \A e : [c EXCEPT !.lines = e] = [open |-> o, seq |-> q, xlm |-> m, lines |-> e, offers |-> {}, data |-> d]
    BY <2>2
  <2> QED
    BY <2>1, <2>3, Zenon DEF NoLines
<1> QED
  BY <1>2, <1>3, <1>4

LEMMA PaymentsPlay ==
  ASSUME NEW a, IsAccount(a), DestExists, DestTrusts = Assets
  PROVE  \E f : Plays(f, NoOffers(a), Payments(a)) /\ f[Len(Payments(a))] = NoLines(a)
<1> DEFINE N == Cardinality(DOMAIN a.lines)
           s == SetToSeq(DOMAIN a.lines)
           Left(n) == [x \in {s[j] : j \in (n + 1)..N} |-> a.lines[x]]
           Base == NoOffers(a)
           With(f) == [open |-> a.open, seq |-> a.seq, xlm |-> a.xlm, lines |-> f, offers |-> {}, data |-> a.data]
           Acct(n) == With(Left(n))
<1>1. /\ N \in Nat /\ s \in [1..N -> DOMAIN a.lines]
      /\ \A i, j \in 1..N : s[i] = s[j] => i = j
      /\ \A x \in DOMAIN a.lines : \E i \in 1..N : s[i] = x
  BY FiniteAccount, SetListed
<1>2. PICK p : /\ p \in [0..N -> Seq(CleanOp)] /\ p[0] = <<>> /\ p[N] = Payments(a)
               /\ \A i \in 1..N : p[i] = p[i - 1] \o LineOps(a, s[i])
  BY PaymentsListed
<1> HIDE DEF N, s
<1>3. /\ Base = With(a.lines) /\ NoLines(a) = With(<<>>)
      /\ a.lines \in [DOMAIN a.lines -> Nat] /\ DOMAIN a.lines \subseteq Assets
      /\ a.open \in BOOLEAN /\ a.seq \in Nat /\ a.xlm \in Int /\ a.data \in BOOLEAN
  <2>1. /\ a.lines \in [DOMAIN a.lines -> Nat] /\ DOMAIN a.lines \subseteq Assets
        /\ a.open \in BOOLEAN /\ a.seq \in Nat /\ a.xlm \in Int /\ a.data \in BOOLEAN
    BY DEF IsAccount
  <2> QED
    BY <2>1, WithoutOffers
<1>4. ASSUME NEW n \in 0..N
      PROVE  /\ IsAccount(Acct(n)) /\ Acct(n).offers = {} /\ Acct(n).lines = Left(n)
             /\ \A m \in 0..N : [Acct(n) EXCEPT !.lines = Left(m)] = Acct(m)
  <2>1. {s[j] : j \in (n + 1)..N} \subseteq DOMAIN a.lines
    BY <1>1
  <2>2. Left(n) \in [DOMAIN Left(n) -> Nat] /\ DOMAIN Left(n) \subseteq Assets
    BY <1>3, <2>1
  <2>3. With(Left(n)).lines = Left(n) /\ With(Left(n)).offers = {}
    OBVIOUS
  <2>4. \A m \in 0..N : [With(Left(n)) EXCEPT !.lines = Left(m)] = With(Left(m))
    <3> HIDE DEF Left
    <3> QED
      OBVIOUS
  <2>5. IsAccount(With(Left(n)))
    <3> HIDE DEF Left
    <3> QED
      BY <1>3, <2>2 DEF IsAccount
  <2> HIDE DEF Left, With
  <2> QED
    BY <2>3, <2>4, <2>5
<1>5. Acct(0) = Base
  <2>1. {s[j] : j \in (0 + 1)..N} = DOMAIN a.lines
    BY <1>1
  <2>2. Left(0) = a.lines
    BY <1>3, <2>1
  <2> HIDE DEF Left, Base
  <2> QED
    BY <1>3, <2>2
<1> HIDE DEF Base
<1>6. Acct(N) = NoLines(a)
  <2>1. {s[j] : j \in (N + 1)..N} = {}
    BY <1>1
  <2>2. Left(N) = <<>>
    <3>1. \A q : q = [x \in {} |-> a.lines[x]] => q = <<>>
      OBVIOUS
    <3> QED
      BY <2>1, <3>1
  <2> HIDE DEF Left
  <2> QED
    BY <1>3, <2>2
<1>7. ASSUME NEW n \in 1..N
      PROVE  /\ s[n] \in DOMAIN a.lines /\ s[n] \in DOMAIN Left(n - 1) /\ Left(n - 1)[s[n]] = a.lines[s[n]]
             /\ Drop(Left(n - 1), s[n]) = Left(n)
  <2>1. n - 1 \in 0..N /\ (n - 1) + 1 = n
    BY <1>1
  <2>2. \A j \in n..N : j = n \/ j \in (n + 1)..N
    BY <1>1
  <2>3. \A j \in (n + 1)..N : j \in n..N /\ j # n /\ j \in 1..N
    BY <1>1
  <2>4. n \in n..N /\ n \in 1..N
    BY <1>1
  <2>5. s[n] \in {s[j] : j \in n..N}
    BY <2>4
  <2>6. {s[j] : j \in n..N} \ {s[n]} = {s[j] : j \in (n + 1)..N}
    BY <1>1, <2>2, <2>3, <2>4
  <2>7. Left(n - 1) = [x \in {s[j] : j \in n..N} |-> a.lines[x]]
    BY <2>1
  <2> QED
    BY <1>1, <2>4, <2>5, <2>6, <2>7 DEF Drop
<1> HIDE DEF Left, Acct
<1> DEFINE P(n) == \E f : Plays(f, Base, p[n]) /\ f[Len(p[n])] = Acct(n)
           T == {n \in Nat : n <= N => P(n)}
<1>8. 0 \in T
  <2> DEFINE f == [i \in 0..0 |-> Base]
  <2>1. Len(p[0]) = 0 /\ f[0] = Base
    BY <1>2
  <2> HIDE DEF f
  <2>2. Plays(f, Base, p[0]) /\ f[Len(p[0])] = Acct(0)
    BY <1>5, <2>1 DEF Plays
  <2> QED
    BY <2>2
<1>9. ASSUME NEW n \in Nat, n \in T PROVE n + 1 \in T
  <2> SUFFICES ASSUME n + 1 <= N PROVE P(n + 1)
    OBVIOUS
  <2>1. n + 1 \in 1..N /\ (n + 1) - 1 = n /\ n <= N /\ n \in 0..N /\ n + 1 \in 0..N
    BY <1>1
  <2>2. PICK f : Plays(f, Base, p[n]) /\ f[Len(p[n])] = Acct(n)
    BY <1>9, <2>1
  <2> DEFINE ops == LineOps(a, s[n + 1])
  <2>3. /\ s[n + 1] \in DOMAIN a.lines /\ s[n + 1] \in DOMAIN Left(n) /\ Left(n)[s[n + 1]] = a.lines[s[n + 1]]
        /\ Drop(Left(n), s[n + 1]) = Left(n + 1)
    BY <1>7, <2>1
  <2>4. /\ IsAccount(Acct(n)) /\ Acct(n).offers = {} /\ Acct(n).lines = Left(n)
        /\ [Acct(n) EXCEPT !.lines = Left(n + 1)] = Acct(n + 1)
    BY <1>4, <2>1
  <2>5. PICK g : Plays(g, Acct(n), ops) /\ g[Len(ops)] = [Acct(n) EXCEPT !.lines = Drop(Acct(n).lines, s[n + 1])]
    <3> PICK c : c = Acct(n)
      OBVIOUS
    <3> PICK x : x = s[n + 1]
      OBVIOUS
    <3>1. /\ IsAccount(c) /\ c.offers = {} /\ x \in DOMAIN a.lines /\ x \in DOMAIN c.lines
          /\ c.lines[x] = a.lines[x]
      BY <2>3, <2>4
    <3>2. \E g : Plays(g, c, LineOps(a, x)) /\ g[Len(LineOps(a, x))] = [c EXCEPT !.lines = Drop(@, x)]
      BY <3>1, LineOpsPlay
    <3> QED
      BY <3>2
  <2>6. g[Len(ops)] = Acct(n + 1)
    BY <2>3, <2>4, <2>5
  <2>7. p[n] \in Seq(AnyOp) /\ ops \in Seq(AnyOp) /\ p[n + 1] = p[n] \o ops
    BY <1>2, <2>1, <2>3, LineOpsTyped, CleanIsOp, SeqMonotonic
  <2> HIDE DEF ops
  <2>8. PICK h : Chained(h, f, g, Base, p[n], ops)
    BY <2>2, <2>5, <2>7, PlaysBoth
  <2>9. h[Len(p[n + 1])] = Acct(n + 1)
    <3>1. Len(p[n + 1]) = Len(p[n]) + Len(ops) /\ Len(ops) \in 0..Len(ops)
      BY <2>7, ConcatProperties
    <3> QED
      BY <2>6, <2>8, <3>1 DEF Chained
  <2> QED
    BY <2>7, <2>8, <2>9 DEF Chained
<1>10. P(N)
  <2>1. \A n \in Nat : n \in T
    <3> HIDE DEF T
    <3> QED
      BY <1>8, <1>9, NatSets
  <2> HIDE DEF P
  <2> QED
    BY <1>1, <2>1
<1> QED
  BY <1>2, <1>6, <1>10 DEF Base

LEMMA PlaysShrink ==
  ASSUME NEW a, IsAccount(a), NEW ops \in Seq(CleanOp), NEW f, Plays(f, a, ops)
  PROVE  \A n \in 0..Len(ops) : f[n].open = a.open /\ f[n].offers \subseteq a.offers
<1> DEFINE N == Len(ops)
           T == {n \in Nat : n <= N => f[n].open = a.open /\ f[n].offers \subseteq a.offers}
<1>1. N \in Nat /\ ops \in Seq(AnyOp) /\ \A i \in 1..N : ops[i] \in CleanOp
  BY CleanIsOp, SeqMonotonic
<1>2. 0 \in T
  BY DEF Plays
<1>3. ASSUME NEW n \in Nat, n \in T PROVE n + 1 \in T
  <2> SUFFICES ASSUME n + 1 <= N PROVE f[n + 1].open = a.open /\ f[n + 1].offers \subseteq a.offers
    OBVIOUS
  <2>1. n + 1 \in 1..N /\ (n + 1) - 1 = n /\ n \in 0..N /\ n <= N
    BY <1>1
  <2>2. Applies(f[n], ops[n + 1]) /\ f[n + 1] = Apply(f[n], ops[n + 1])
    BY <2>1 DEF Plays
  <2>3. IsAccount(f[n]) /\ ops[n + 1] \in CleanOp
    BY <1>1, <2>1, PlaysTyped
  <2>4. Apply(f[n], ops[n + 1]).open = f[n].open /\ Apply(f[n], ops[n + 1]).offers \subseteq f[n].offers
    <3> PICK b, o : b = f[n] /\ o = ops[n + 1]
      OBVIOUS
    <3>1. IsAccount(b) /\ o \in CleanOp /\ (o.kind \in {"cancel", "pay", "untrust", "delete"})
      BY <2>3 DEF CleanOp, AssetOp, Op
    <3>2. CASE o.kind = "cancel"
      BY <3>1, <3>2 DEF Apply, IsAccount
    <3>3. CASE o.kind = "pay"
      <4>1. Apply(b, o) = [b EXCEPT !.lines[o.asset] = @ - o.amount]
        BY <3>3 DEF Apply
      <4> QED
        BY <3>1, <4>1 DEF IsAccount
    <3>4. CASE o.kind = "untrust"
      BY <3>1, <3>4 DEF Apply, IsAccount
    <3>5. CASE o.kind = "delete"
      BY <3>1, <3>5 DEF Apply, IsAccount
    <3> QED
      BY <3>1, <3>2, <3>3, <3>4, <3>5
  <2> QED
    BY <1>3, <2>1, <2>2, <2>4
<1>4. \A n \in Nat : n \in T
  <2> HIDE DEF T
  <2> QED
    BY <1>2, <1>3, NatSets
<1> QED
  BY <1>1, <1>4

LEMMA DeletesTyped ==
  ASSUME NEW a, IsAccount(a)
  PROVE  Deletes(a) \in Seq(CleanOp) /\ Len(Deletes(a)) = One(a.data)
<1>1. Op("delete", "data", 0) \in CleanOp
  BY DEF CleanOp
<1> QED
  BY <1>1 DEF Deletes, One

LEMMA CollectTyped ==
  ASSUME NEW a, IsAccount(a)
  PROVE  /\ CollectCleanupOps(a) \in Seq(CleanOp)
         /\ CollectCleanupOps(a) = (Cancels(a) \o Payments(a)) \o Deletes(a)
         /\ Len(CollectCleanupOps(a)) = CleanupOps(a)
         /\ CleanupOps(a) \in Nat /\ Subentries(a) \in Nat
         /\ (Subentries(a) = 0 => CleanupOps(a) = 0)
<1>1. CollectCleanupOps(a) = (Cancels(a) \o Payments(a)) \o Deletes(a)
  BY DEF CollectCleanupOps, Cancels, Payments, Deletes
<1>2. /\ Cancels(a) \in Seq(CleanOp) /\ Len(Cancels(a)) = Cardinality(a.offers)
      /\ Payments(a) \in Seq(CleanOp)
      /\ Len(Payments(a)) = Cardinality(DOMAIN a.lines) + Cardinality(HeldLines(a))
      /\ Deletes(a) \in Seq(CleanOp) /\ Len(Deletes(a)) = One(a.data)
  BY CancelsPlay, PaymentsTyped, DeletesTyped
<1>3. /\ Cardinality(a.offers) \in Nat /\ Cardinality(DOMAIN a.lines) \in Nat
      /\ Cardinality(HeldLines(a)) \in Nat /\ One(a.data) \in Nat
      /\ Cardinality(HeldLines(a)) <= Cardinality(DOMAIN a.lines)
  <2>1. HeldLines(a) \in SUBSET DOMAIN a.lines
    BY DEF HeldLines
  <2> QED
    BY <2>1, FiniteAccount, FS_CardinalityType, FS_Subset DEF One
<1>4. /\ Cancels(a) \o Payments(a) \in Seq(CleanOp)
      /\ Len(Cancels(a) \o Payments(a)) = Len(Cancels(a)) + Len(Payments(a))
  BY <1>2, ConcatProperties
<1>5. PICK cp, d : cp = Cancels(a) \o Payments(a) /\ d = Deletes(a)
  OBVIOUS
<1>6. cp \o d \in Seq(CleanOp) /\ Len(cp \o d) = Len(cp) + Len(d)
  BY <1>2, <1>4, <1>5, ConcatProperties
<1>7. PICK ops : ops = CollectCleanupOps(a)
  OBVIOUS
<1>8. ops = cp \o d
  BY <1>1, <1>5, <1>7
<1>9. /\ ops \in Seq(CleanOp)
      /\ Len(ops) = Cardinality(a.offers) + (Cardinality(DOMAIN a.lines) + Cardinality(HeldLines(a))) + One(a.data)
  BY <1>2, <1>4, <1>5, <1>6, <1>8
<1>10. /\ Len(ops) = CleanupOps(a) /\ CleanupOps(a) \in Nat /\ Subentries(a) \in Nat
       /\ (Subentries(a) = 0 => CleanupOps(a) = 0)
  <2>1. PICK o, l, h, d1 : /\ o = Cardinality(a.offers) /\ l = Cardinality(DOMAIN a.lines)
                          /\ h = Cardinality(HeldLines(a)) /\ d1 = One(a.data)
    OBVIOUS
  <2>2. o \in Nat /\ l \in Nat /\ h \in Nat /\ d1 \in Nat /\ h <= l /\ Len(ops) = o + (l + h) + d1
    BY <1>3, <1>9, <2>1
  <2>3. Subentries(a) = l + o + d1 /\ CleanupOps(a) = h + (l + o + d1)
    BY <2>1 DEF CleanupOps, Subentries
  <2> QED
    BY <2>2, <2>3
<1> QED
  BY <1>1, <1>7, <1>9, <1>10

LEMMA PlanPlays ==
  ASSUME NEW a, IsAccount(a), DestExists, DestTrusts = Assets
  PROVE  \E f : LET ops == CollectCleanupOps(a)
                IN  /\ Plays(f, a, ops)
                    /\ Subentries(f[Len(ops)]) = 0
                    /\ \A n \in 1..Len(ops) : f[n - 1].offers # {} => ops[n].kind = "cancel"
<1> DEFINE C == Cancels(a)
           P == Payments(a)
           D == Deletes(a)
           last == [NoLines(a) EXCEPT !.data = FALSE]
<1>1. PICK f : Plays(f, a, C) /\ f[Len(C)] = NoOffers(a)
  BY CancelsPlay
<1>2. PICK g : Plays(g, NoOffers(a), P) /\ g[Len(P)] = NoLines(a)
  BY PaymentsPlay
<1>3. /\ NoLines(a) = [open |-> a.open, seq |-> a.seq, xlm |-> a.xlm, lines |-> <<>>, offers |-> {}, data |-> a.data]
      /\ NoOffers(a) = [open |-> a.open, seq |-> a.seq, xlm |-> a.xlm, lines |-> a.lines,
                        offers |-> {}, data |-> a.data]
      /\ a.data \in BOOLEAN
  BY WithoutOffers DEF IsAccount
<1>4. \E e : Plays(e, NoLines(a), D) /\ e[Len(D)].lines = <<>> /\ e[Len(D)].offers = {} /\ e[Len(D)].data = FALSE
  <2>1. CASE a.data
    <3> DEFINE e == [n \in 0..1 |-> IF n = 0 THEN NoLines(a) ELSE last]
    <3>1. D = <<Op("delete", "data", 0)>>
      BY <2>1 DEF Deletes
    <3>2. Applies(NoLines(a), Op("delete", "data", 0)) /\ Apply(NoLines(a), Op("delete", "data", 0)) = last
      <4>1. NoLines(a).data
        BY <1>3, <2>1
      <4> QED
        BY <4>1, Delete
    <3>3. last.lines = <<>> /\ last.offers = {} /\ last.data = FALSE
      <4> PICK c : c = NoLines(a)
        OBVIOUS
      <4>1. /\ c.lines = <<>> /\ c.offers = {}
            /\ DOMAIN c = {"open", "seq", "xlm", "lines", "offers", "data"}
        BY <1>3
      <4>2. /\ [c EXCEPT !.data = FALSE].lines = c.lines /\ [c EXCEPT !.data = FALSE].offers = c.offers
            /\ [c EXCEPT !.data = FALSE].data = FALSE
        BY <4>1
      <4> QED
        BY <4>1, <4>2
    <3> HIDE DEF last
    <3>4. e[0] = NoLines(a) /\ e[1] = last
      OBVIOUS
    <3> HIDE DEF e, D
    <3>5. Len(D) = 1 /\ D[1] = Op("delete", "data", 0) /\ \A n \in 1..1 : n = 1 /\ n - 1 = 0
      BY <3>1
    <3>6. Plays(e, NoLines(a), D)
      BY <3>2, <3>4, <3>5 DEF Plays
    <3> QED
      BY <3>3, <3>4, <3>5, <3>6
  <2>2. CASE ~a.data
    <3> DEFINE e == [n \in 0..0 |-> NoLines(a)]
    <3>1. Len(D) = 0 /\ e[0] = NoLines(a)
      BY <2>2 DEF Deletes
    <3> HIDE DEF e, D
    <3>2. Plays(e, NoLines(a), D)
      BY <3>1 DEF Plays
    <3>3. e[Len(D)].lines = <<>> /\ e[Len(D)].offers = {} /\ e[Len(D)].data = FALSE
      BY <1>3, <2>2, <3>1
    <3> QED
      BY <3>2, <3>3
  <2> QED
    BY <2>1, <2>2
<1>5. PICK e : Plays(e, NoLines(a), D) /\ e[Len(D)].lines = <<>> /\ e[Len(D)].offers = {} /\ e[Len(D)].data = FALSE
  BY <1>4
<1>6. /\ C \in Seq(CleanOp) /\ P \in Seq(CleanOp) /\ D \in Seq(CleanOp)
      /\ C \in Seq(AnyOp) /\ P \in Seq(AnyOp) /\ D \in Seq(AnyOp)
      /\ \A i \in 1..Len(C) : C[i].kind = "cancel"
      /\ CollectCleanupOps(a) = (C \o P) \o D
  BY CancelsPlay, PaymentsTyped, DeletesTyped, CollectTyped, CleanIsOp, SeqMonotonic
<1> HIDE DEF C, P, D
<1>7. PICK h : Chained(h, f, g, a, C, P)
  BY <1>1, <1>2, <1>6, PlaysBoth
<1>8. /\ C \o P \in Seq(CleanOp) /\ C \o P \in Seq(AnyOp) /\ Len(C \o P) = Len(C) + Len(P)
      /\ Len(C) \in Nat /\ Len(P) \in Nat /\ Len(D) \in Nat
      /\ \A i \in 1..(Len(C) + Len(P)) : (C \o P)[i] = IF i <= Len(C) THEN C[i] ELSE P[i - Len(C)]
  BY <1>6, ConcatProperties
<1>9. h[Len(C \o P)] = NoLines(a)
  <2>1. Len(P) \in 0..Len(P)
    BY <1>8
  <2> QED
    BY <1>2, <1>7, <1>8, <2>1 DEF Chained
<1>10. Plays(h, a, C \o P)
  BY <1>7 DEF Chained
<1>11. PICK k : Chained(k, h, e, a, C \o P, D)
  BY <1>5, <1>6, <1>8, <1>9, <1>10, PlaysBoth
<1>a. PICK CP : CP = C \o P
  OBVIOUS
<1>b. PICK ops : ops = CP \o D
  OBVIOUS
<1>12. /\ Len(ops) = Len(C) + Len(P) + Len(D) /\ ops \in Seq(CleanOp)
       /\ \A i \in 1..Len(ops) : ops[i] = IF i <= Len(CP) THEN CP[i] ELSE D[i - Len(CP)]
  <2>1. CP \in Seq(CleanOp) /\ Len(CP) = Len(C) + Len(P)
    BY <1>8, <1>a
  <2> QED
    BY <1>6, <1>b, <2>1, ConcatProperties
<1>13. Plays(k, a, ops)
  BY <1>11, <1>a, <1>b DEF Chained
<1>14. k[Len(ops)] = e[Len(D)]
  <2>1. Len(D) \in 0..Len(D) /\ Len(ops) = Len(C \o P) + Len(D)
    BY <1>8, <1>12
  <2> QED
    BY <1>11, <1>a, <2>1 DEF Chained
<1>15. Subentries(k[Len(ops)]) = 0
  <2>1. DOMAIN e[Len(D)].lines = {}
    BY <1>5
  <2>2. Cardinality({}) = 0
    BY FS_EmptySet
  <2>3. One(FALSE) = 0
    BY DEF One
  <2>4. PICK z : z = e[Len(D)]
    OBVIOUS
  <2>5. Cardinality(DOMAIN z.lines) = 0 /\ Cardinality(z.offers) = 0 /\ One(z.data) = 0
    BY <1>5, <2>1, <2>2, <2>3, <2>4
  <2>6. Subentries(z) = 0
    BY <2>5 DEF Subentries
  <2> QED
    BY <1>14, <2>4, <2>6
<1>16. ASSUME NEW n \in 1..Len(ops), k[n - 1].offers # {} PROVE ops[n].kind = "cancel"
  <2>1. CASE n <= Len(C)
    <3>1. n \in 1..Len(C) /\ n <= Len(C \o P) /\ n \in 1..(Len(C) + Len(P))
      BY <1>8, <2>1
    <3>2. ops[n] = C[n]
      BY <1>8, <1>12, <1>a, <2>1, <3>1
    <3> QED
      BY <1>6, <3>1, <3>2
  <2>2. CASE ~(n <= Len(C))
    <3> DEFINE m == n - 1
               M == Len(C)
    <3>1. m \in 0..Len(ops) /\ M \in 0..Len(ops) /\ M <= m /\ Len(ops) \in Nat /\ m - M \in 0..(Len(ops) - M)
      BY <1>8, <1>12, <2>2
    <3>2. k[M] = NoOffers(a)
      <4>1. M \in 0..Len(C \o P) /\ M \in 0..Len(C)
        BY <1>8
      <4> QED
        BY <1>1, <1>7, <1>11, <4>1 DEF Chained
    <3> DEFINE span == SubSeq(ops, M + 1, Len(ops))
    <3>a. Len(ops) \in 0..Len(ops) /\ M <= Len(ops) /\ ops \in Seq(AnyOp)
      BY <1>12, <3>1, CleanIsOp, SeqMonotonic
    <3>z. M < Len(ops) /\ Len(ops) \in 0..Len(ops)
      BY <1>8, <1>12, <2>2, <3>1
    <3>d. ops \in Seq(CleanOp)
      BY <1>12
    <3> HIDE DEF M, m
    <3>b. PICK q : PartOf(q, k, ops, M, Len(ops))
      BY <1>13, <3>1, <3>a, PlaysPart
    <3>c. span \in Seq(CleanOp) /\ Len(span) = Len(ops) - M
      <4>1. M \in 0..Len(ops)
        BY <3>1
      <4> QED
        BY <3>d, <3>z, <4>1, CutInside
    <3>3. Plays(q, NoOffers(a), span) /\ \A i \in 0..(Len(ops) - M) : q[i] = k[M + i]
      BY <3>2, <3>b DEF PartOf
    <3>4. IsAccount(NoOffers(a))
      BY <1>3 DEF IsAccount
    <3>5. q[m - M].offers \subseteq NoOffers(a).offers
      <4> HIDE DEF span
      <4> QED
        BY <3>1, <3>3, <3>4, <3>c, PlaysShrink
    <3>6. q[m - M] = k[m]
      <4>1. M + (m - M) = m
        BY <3>1, <1>8 DEF M, m
      <4> QED
        BY <3>1, <3>3, <4>1
    <3> QED
      BY <1>3, <1>16, <3>5, <3>6 DEF m
  <2> QED
    BY <2>1, <2>2
<1>17. CollectCleanupOps(a) = ops
  BY <1>6, <1>a, <1>b
<1> QED
  BY <1>13, <1>15, <1>16, <1>17

-----------------------------------------------------------------------------
(***************************************************************************)
(* The transactions of a cleanup.                                          *)
(***************************************************************************)
LEMMA MaxTwo ==
  ASSUME NEW x \in Int, NEW y \in Int
  PROVE  Max({x, y}) = IF x <= y THEN y ELSE x
  BY DEF Max

LEMMA MinTwo ==
  ASSUME NEW x \in Int, NEW y \in Int
  PROVE  Min({x, y}) = IF x <= y THEN x ELSE y
  BY DEF Min

LEMMA TimesMonotone ==
  ASSUME NEW c \in Nat, NEW a \in Int, NEW b \in Int, a <= b
  PROVE  a * c <= b * c
<1>1. (b - a) \in Nat /\ (b - a) * c >= 0
  OBVIOUS
<1>2. (b - a) * c = b * c - a * c /\ a * c \in Int /\ b * c \in Int
  OBVIOUS
<1> QED
  BY <1>1, <1>2

LEMMA ChunksCount ==
  ASSUME NEW n \in Nat
  PROVE  /\ Chunks(n) \in Nat /\ (n = 0 => Chunks(n) = 0)
         /\ Chunks(n) * OpsPerTx >= n
         /\ \A k \in 1..Chunks(n) : (k - 1) * OpsPerTx < n /\ (k - 1) * OpsPerTx \in Nat
<1> DEFINE q == Chunks(n)
           P == OpsPerTx
<1>1. P \in Nat /\ P > 0
  BY CleanupAssumption
<1> HIDE DEF P
<1>2. q = (n + P - 1) \div P
  BY DEF Chunks, P
<1>3. q \in Int /\ q * P <= n + P - 1 /\ n + P - 1 < (q + 1) * P
  BY <1>1, <1>2
<1> HIDE DEF q
<1>4. (q + 1) * P = q * P + P /\ q * P \in Int /\ (q - 1) * P = q * P - P
  BY <1>1, <1>3
<1>5. q >= 0
  <2> SUFFICES ASSUME q <= -1 PROVE FALSE
    BY <1>3
  <2>1. q * P <= (-1) * P
    BY <1>1, <1>3, TimesMonotone
  <2> QED
    BY <1>1, <1>3, <1>4, <2>1
<1>6. n = 0 => q = 0
  <2> SUFFICES ASSUME n = 0, q >= 1 PROVE FALSE
    BY <1>3, <1>5
  <2>1. 1 * P <= q * P
    BY <1>1, <1>3, TimesMonotone
  <2> QED
    BY <1>1, <1>3, <1>4, <2>1
<1>7. q * P >= n
  BY <1>1, <1>3, <1>4
<1>8. ASSUME NEW k \in 1..q PROVE (k - 1) * P < n /\ (k - 1) * P \in Nat
  <2>1. k - 1 \in Nat /\ k - 1 <= q - 1
    BY <1>3
  <2>2. (k - 1) * P <= (q - 1) * P /\ (k - 1) * P \in Nat
    BY <1>1, <1>3, <2>1, TimesMonotone
  <2> QED
    BY <1>1, <1>3, <1>4, <2>2
<1> QED
  BY <1>3, <1>5, <1>6, <1>7, <1>8 DEF q, P

CleanTx == [seq : Nat, ops : Seq(CleanOp)]

\* The k-th transaction takes the operations from one cut to the next.
Cuts(pos, a) ==
  LET ops == CollectCleanupOps(a)
      m   == Len(CleanupSteps(a))
  IN  /\ pos[0] = 0 /\ pos[m] = Len(ops)
      /\ \A k \in 0..m : pos[k] \in 0..Len(ops)
      /\ \A k \in 1..m : /\ pos[k - 1] < pos[k]
                         /\ CleanupSteps(a)[k] = [seq |-> a.seq + k, ops |-> SubSeq(ops, pos[k - 1] + 1, pos[k])]

LEMMA StepsCut ==
  ASSUME NEW a, IsAccount(a)
  PROVE  /\ Len(CleanupSteps(a)) = Chunks(CleanupOps(a)) /\ Len(CleanupSteps(a)) \in Nat
         /\ CleanupSteps(a) = [k \in 1..Len(CleanupSteps(a)) |-> CleanupSteps(a)[k]]
         /\ \E pos : Cuts(pos, a)
<1> DEFINE ops == CollectCleanupOps(a)
           n == Len(ops)
           m == Chunks(n)
           P == OpsPerTx
           pos == [k \in 0..m |-> Min({k * P, n})]
<1>1. n \in Nat /\ n = CleanupOps(a)
  BY CollectTyped
<1>2. P \in Nat /\ P > 0
  BY CleanupAssumption
<1>3. CleanupSteps(a) = [k \in 1..m |-> [seq |-> a.seq + k, ops |-> SubSeq(ops, (k - 1) * P + 1, Min({k * P, n}))]]
  BY DEF CleanupSteps
<1> HIDE DEF ops, n
<1>4. /\ m \in Nat /\ (n = 0 => m = 0) /\ m * P >= n
      /\ \A k \in 1..m : (k - 1) * P < n /\ (k - 1) * P \in Nat
  BY <1>1, ChunksCount
<1> HIDE DEF m, P
<1>5. Len(CleanupSteps(a)) = m
  BY <1>3, <1>4
<1>a. CleanupSteps(a) = [k \in 1..m |-> CleanupSteps(a)[k]]
  BY <1>3
<1>6. \A k \in 0..m : k * P \in Nat /\ pos[k] = IF k * P <= n THEN k * P ELSE n
  BY <1>1, <1>2, <1>4, MinTwo
<1>7. pos[0] = 0
  <2>1. 0 * P = 0 /\ 0 \in 0..m
    BY <1>2, <1>4
  <2> HIDE DEF pos
  <2> QED
    BY <1>1, <1>6, <2>1
<1>8. pos[m] = n
  <2>1. m \in 0..m
    BY <1>4
  <2> HIDE DEF pos
  <2> QED
    BY <1>1, <1>4, <1>6, <2>1
<1>9. \A k \in 0..m : pos[k] \in 0..n
  <2> HIDE DEF pos
  <2> QED
    BY <1>1, <1>6
<1>10. ASSUME NEW k \in 1..m
       PROVE  /\ pos[k - 1] < pos[k]
              /\ CleanupSteps(a)[k] = [seq |-> a.seq + k, ops |-> SubSeq(ops, pos[k - 1] + 1, pos[k])]
  <2>1. k - 1 \in 0..m /\ k \in 0..m /\ (k - 1) * P < n /\ (k - 1) * P \in Nat
    BY <1>4
  <2>2. k * P = (k - 1) * P + P
    BY <1>2, <1>4
  <2>3. pos[k] = Min({k * P, n})
    BY <2>1
  <2> HIDE DEF pos
  <2>4. pos[k - 1] = (k - 1) * P
    BY <1>1, <1>6, <2>1
  <2>5. pos[k - 1] < pos[k]
    BY <1>1, <1>2, <1>6, <2>1, <2>2, <2>4
  <2>6. CleanupSteps(a)[k] = [seq |-> a.seq + k, ops |-> SubSeq(ops, (k - 1) * P + 1, Min({k * P, n}))]
    BY <1>3
  <2> QED
    BY <2>3, <2>4, <2>5, <2>6
<1> HIDE DEF pos
<1>11. Cuts(pos, a)
  BY <1>5, <1>7, <1>8, <1>9, <1>10 DEF Cuts, n, ops
<1> QED
  BY <1>1, <1>4, <1>5, <1>11, <1>a DEF m

LEMMA StepsTyped ==
  ASSUME NEW a, IsAccount(a)
  PROVE  /\ CleanupSteps(a) \in Seq(CleanTx)
         /\ \A k \in 1..Len(CleanupSteps(a)) :
              CleanupSteps(a)[k].seq = a.seq + k /\ Len(CleanupSteps(a)[k].ops) > 0
         /\ (Len(CleanupSteps(a)) > 0 =>
              CleanupSteps(a)[1].ops[1] = CollectCleanupOps(a)[1] /\ Len(CollectCleanupOps(a)) > 0)
<1> DEFINE ops == CollectCleanupOps(a)
           steps == CleanupSteps(a)
           m == Len(steps)
<1>1. PICK pos : Cuts(pos, a)
  BY StepsCut
<1>2. m \in Nat /\ ops \in Seq(CleanOp) /\ Len(ops) \in Nat /\ a.seq \in Nat
  BY StepsCut, CollectTyped DEF IsAccount
<1>3. ASSUME NEW k \in 1..m
      PROVE  /\ steps[k] \in CleanTx /\ steps[k].seq = a.seq + k /\ Len(steps[k].ops) > 0
             /\ steps[k].ops[1] = ops[pos[k - 1] + 1]
  <2>1. /\ pos[k - 1] \in 0..Len(ops) /\ pos[k] \in 0..Len(ops) /\ pos[k - 1] < pos[k]
        /\ steps[k] = [seq |-> a.seq + k, ops |-> SubSeq(ops, pos[k - 1] + 1, pos[k])]
    <3>1. k - 1 \in 0..m /\ k \in 0..m
      BY <1>2
    <3> QED
      BY <1>1, <3>1 DEF Cuts
  <2>2. PICK i, j : i = pos[k - 1] /\ j = pos[k]
    OBVIOUS
  <2>3. PICK span : span = SubSeq(ops, i + 1, j)
    OBVIOUS
  <2>a. /\ SubSeq(ops, i + 1, j) \in Seq(CleanOp) /\ Len(SubSeq(ops, i + 1, j)) = j - i /\ j - i > 0
        /\ SubSeq(ops, i + 1, j)[1] = ops[i + 1]
    <3>1. i \in 0..Len(ops) /\ j \in 0..Len(ops) /\ i < j
      BY <2>1, <2>2
    <3> HIDE DEF ops
    <3> QED
      BY <1>2, <3>1, CutInside
  <2>4. span \in Seq(CleanOp) /\ Len(span) = j - i /\ j - i > 0 /\ span[1] = ops[i + 1]
    BY <2>3, <2>a
  <2>5. steps[k] = [seq |-> a.seq + k, ops |-> span]
    BY <2>1, <2>2, <2>3
  <2> HIDE DEF ops, steps
  <2>6. a.seq + k \in Nat
    BY <1>2 DEF m
  <2> QED
    BY <2>2, <2>4, <2>5, <2>6 DEF CleanTx
<1>4. steps \in Seq(CleanTx)
  <2>1. steps = [k \in 1..m |-> steps[k]]
    BY StepsCut
  <2>2. \A k \in 1..m : steps[k] \in CleanTx
    BY <1>3
  <2> HIDE DEF steps
  <2> QED
    BY <1>2, <2>1, <2>2
<1>5. m > 0 => steps[1].ops[1] = ops[1] /\ Len(ops) > 0
  <2> SUFFICES ASSUME m > 0 PROVE steps[1].ops[1] = ops[1] /\ Len(ops) > 0
    OBVIOUS
  <2>1. 1 \in 1..m /\ 1 - 1 = 0 /\ 0 + 1 = 1 /\ 0 \in 0..m /\ 1 \in 0..m
    BY <1>2
  <2>2. pos[0] = 0 /\ pos[0] < pos[1] /\ pos[1] \in 0..Len(ops)
    BY <1>1, <2>1 DEF Cuts
  <2>3. steps[1].ops[1] = ops[pos[0] + 1]
    BY <1>3, <2>1
  <2> QED
    BY <1>2, <2>2, <2>3
<1> QED
  BY <1>3, <1>4, <1>5

\* The account of the plan, and the account each transaction makes of it.
Stages(st, a) ==
  LET steps == CleanupSteps(a)
  IN  /\ st[0] = a /\ Subentries(st[Len(steps)]) = 0
      /\ \A k \in 0..Len(steps) : IsAccount(st[k]) /\ st[k].open = a.open
      /\ \A k \in 1..Len(steps) :
           /\ \E f : Plays(f, st[k - 1], steps[k].ops) /\ f[Len(steps[k].ops)] = st[k]
           /\ st[k - 1].offers # {} => steps[k].ops[1].kind = "cancel"

LEMMA StepsPlay ==
  ASSUME NEW a, IsAccount(a), DestExists, DestTrusts = Assets
  PROVE  \E st : Stages(st, a)
<1> DEFINE ops == CollectCleanupOps(a)
           steps == CleanupSteps(a)
           m == Len(steps)
<1>1. PICK pos : Cuts(pos, a)
  BY StepsCut
<1>2. m \in Nat /\ ops \in Seq(CleanOp) /\ ops \in Seq(AnyOp) /\ Len(ops) \in Nat
  BY StepsCut, CollectTyped, CleanIsOp, SeqMonotonic
<1>3. PICK f : /\ Plays(f, a, ops)
               /\ Subentries(f[Len(ops)]) = 0
               /\ \A n \in 1..Len(ops) : f[n - 1].offers # {} => ops[n].kind = "cancel"
  BY PlanPlays
<1> HIDE DEF ops
<1>4. \A k \in 0..m : pos[k] \in 0..Len(ops)
  BY <1>1 DEF Cuts, ops
<1>5. /\ pos[0] = 0 /\ pos[m] = Len(ops)
      /\ \A k \in 1..m : /\ pos[k - 1] < pos[k]
                         /\ steps[k] = [seq |-> a.seq + k, ops |-> SubSeq(ops, pos[k - 1] + 1, pos[k])]
  BY <1>1 DEF Cuts, ops
<1> DEFINE st == [k \in 0..m |-> f[pos[k]]]
<1>6. st[0] = a /\ Subentries(st[m]) = 0
  BY <1>2, <1>3, <1>5 DEF Plays
<1>7. ASSUME NEW k \in 0..m PROVE IsAccount(st[k]) /\ st[k].open = a.open
  <2>1. st[k] = f[pos[k]] /\ pos[k] \in 0..Len(ops)
    BY <1>4
  <2>2. IsAccount(f[pos[k]]) /\ f[pos[k]].open = a.open
    BY <1>2, <1>3, <2>1, PlaysTyped, PlaysShrink
  <2> HIDE DEF st
  <2> QED
    BY <2>1, <2>2
<1>8. ASSUME NEW k \in 1..m
      PROVE  /\ \E g : Plays(g, st[k - 1], steps[k].ops) /\ g[Len(steps[k].ops)] = st[k]
             /\ st[k - 1].offers # {} => steps[k].ops[1].kind = "cancel"
  <2>a. PICK i, j : i = pos[k - 1] /\ j = pos[k]
    OBVIOUS
  <2> DEFINE span == SubSeq(ops, i + 1, j)
  <2>1. k - 1 \in 0..m /\ k \in 0..m
    BY <1>2
  <2>2. i \in 0..Len(ops) /\ j \in 0..Len(ops) /\ i < j
    BY <1>2, <1>4, <1>5, <2>1, <2>a
  <2>d. /\ i \in Nat /\ j \in Nat /\ Len(SubSeq(ops, i + 1, j)) = j - i /\ j - i > 0
        /\ i + 1 \in 1..Len(ops) /\ SubSeq(ops, i + 1, j)[1] = ops[i + 1]
    BY <1>2, <2>2, CutInside
  <2>c. /\ i \in Nat /\ j \in Nat /\ Len(span) = j - i /\ j - i > 0 /\ i + 1 \in 1..Len(ops)
        /\ span[1] = ops[i + 1]
    BY <2>d
  <2>l. i <= j
    BY <2>2
  <2>e. steps[k] = [seq |-> a.seq + k, ops |-> span]
    BY <1>5, <2>a
  <2>3. steps[k].ops = span
    <3> HIDE DEF steps, span
    <3> QED
      BY <2>e
  <2>4. st[k - 1] = f[i] /\ st[k] = f[j]
    BY <2>1, <2>a
  <2> HIDE DEF st
  <2>5. PICK g : PartOf(g, f, ops, i, j)
    BY <1>2, <1>3, <2>2, <2>l, PlaysPart
  <2>7. Plays(g, f[i], span) /\ g[j - i] = f[j]
    <3>1. j - i \in 0..(j - i) /\ i + (j - i) = j
      <4> HIDE DEF span
      <4> QED
        BY <2>c
    <3> QED
      BY <2>5, <3>1 DEF PartOf
  <2>8. st[k - 1].offers # {} => span[1].kind = "cancel"
    <3>1. (i + 1) - 1 = i
      BY <2>c
    <3> QED
      BY <1>3, <2>4, <2>c, <3>1
  <2> QED
    BY <2>3, <2>4, <2>c, <2>7, <2>8
<1> HIDE DEF st
<1>9. Stages(st, a)
  BY <1>6, <1>7, <1>8 DEF Stages
<1> QED
  BY <1>9

-----------------------------------------------------------------------------
(***************************************************************************)
(* The account, the transactions shown, and the accounts that were read:   *)
(* what holds of them whatever the ledger takes and whenever it does.      *)
(***************************************************************************)
MergeTx(n) == [seq |-> n, ops |-> <<Op("merge", "xlm", 0)>>]
IsMerge(tr) == \E n \in Nat : tr = MergeTx(n)

\* Nobody else touches the account, and the destination takes what it holds.
Quiet == outside = 0 /\ DestExists /\ DestTrusts = Assets

SeenTo(steps, k) == \A j \in 1..k : Seen(steps[j])

\* The steps of v that were seen made of v the account as it is, and all of
\* them leave nothing.
Tracked(v) ==
  /\ \A st : Stages(st, v) =>
       \A k \in 0..Len(CleanupSteps(v)) :
         SeenTo(CleanupSteps(v), k) /\ acct.open /\ acct.seq = v.seq + k => Same(st[k], acct)
  /\ Len(CleanupSteps(v)) > 0 /\ SeenTo(CleanupSteps(v), Len(CleanupSteps(v))) /\ acct.open
       => Subentries(acct) = 0

\* An account that was read: as old as its sequence number.
Read(v) ==
  /\ IsAccount(v)
  /\ v.open /\ acct.open =>
       /\ v.seq <= acct.seq
       /\ v.seq = acct.seq => /\ DOMAIN v.lines = DOMAIN acct.lines
                              /\ v.offers = acct.offers /\ v.data = acct.data
  /\ Quiet /\ v.open => Tracked(v)

\* The transaction after the one that was read took an offer off, if there was one.
Halved(v) ==
  /\ Read(v)
  /\ Quiet /\ v.open =>
       /\ acct.offers \subseteq v.offers
       /\ v.offers # {} => \A i \in included :
            i.tx.seq = v.seq + 1 => i.tx.ops[1].kind = "cancel" /\ i.tx.ops[1].asset \notin acct.offers

\* tr cleans accounts like b.
Fits(tr, b) ==
  \E a, f : /\ IsAccount(a) /\ Same(a, b) /\ Plays(f, a, tr.ops)
            /\ a.offers # {} => tr.ops[1].kind = "cancel"

Took(i) ==
  /\ i.tx \in CleanTx \/ IsMerge(i.tx)
  /\ acct.open => i.tx.seq <= acct.seq
  /\ IsMerge(i.tx) /\ DestExists => ~acct.open
  /\ Quiet => i.ok

Ready(tr) ==
  /\ \/ tr \in CleanTx /\ Len(tr.ops) > 0 /\ ~IsMerge(tr)
     \/ IsMerge(tr)
  /\ acct.open =>
       /\ tr.seq <= acct.seq + 1
       /\ tr.seq = acct.seq + 1 => /\ IsMerge(tr) => Subentries(acct) = 0
                                   /\ Quiet /\ ~IsMerge(tr) => Fits(tr, acct)

\* What the wizard shows.
Guides(w) ==
  /\ w = [stage |-> w.stage, plan |-> w.plan, steps |-> w.steps, from |-> w.from,
               index |-> w.index, watching |-> w.watching]
  /\ w.stage = "plan" => w.steps = <<>>
  /\ w.stage \in {"confirm", "cleanup"} /\ w.steps # <<>> =>
       Read(w.from) /\ w.from.open /\ w.steps = CleanupSteps(w.from)
  /\ w.stage = "cleanup" =>
       /\ w.steps # <<>> /\ w.index \in 1..Len(w.steps)
       /\ SeenTo(w.steps, w.index - 1)
  /\ w.stage = "merge" => \E n \in Nat : w.steps = <<MergeTx(n)>>
  /\ DestExists /\ w.stage = "done" => ~acct.open

CleanupInv ==
  /\ IsAccount(acct) /\ outside \in Nat
  /\ \A i \in included : Took(i)
  /\ \A tr \in issued : Ready(tr)
  /\ cache # <<>> => Read(cache[1].value)
  /\ half # <<>> => Halved(half[1])
  /\ Guides(wizard)

LEMMA MergeRuns ==
  ASSUME NEW a, IsAccount(a), Subentries(a) = 0, DestExists, NEW n \in Nat
  PROVE  Run(a, MergeTx(n).ops).ok /\ Run(a, MergeTx(n).ops).acct = Gone
<1> DEFINE o == Op("merge", "xlm", 0)
           ops == <<o>>
<1>1. o \in AnyOp /\ MergeTx(n).ops = ops
  BY DEF AnyOp, MergeTx
<1>2. Applies(a, o) /\ Apply(a, o) = Gone
  BY Merge
<1> HIDE DEF o
<1>3. ops \in Seq(AnyOp) /\ Len(ops) = 1 /\ ops[1] = o
  BY <1>1
<1> HIDE DEF ops
<1>4. PICK r : Runs(r, a, ops)
  BY <1>3, RunSteps
<1>5. r[0] = [ok |-> TRUE, acct |-> a] /\ r[1] = After(r[0], o) /\ Run(a, ops) = r[1]
  <2>1. 1 \in 1..Len(ops) /\ 1 - 1 = 0
    BY <1>3
  <2> QED
    BY <1>3, <1>4, <2>1 DEF Runs
<1>6. r[1] = [ok |-> TRUE, acct |-> Gone]
  BY <1>2, <1>5 DEF After
<1> QED
  BY <1>1, <1>5, <1>6

\* A fee changes the sequence number and the lumens.
LEMMA ChargedTyped ==
  ASSUME NEW a, IsAccount(a), NEW fee \in Nat
  PROVE  /\ IsAccount(Charged(a, fee)) /\ Same(a, Charged(a, fee)) /\ Charged(a, fee).seq = a.seq + 1
         /\ Subentries(Charged(a, fee)) = Subentries(a)
<1>1. Charged(a, fee) = [open |-> a.open, seq |-> a.seq + 1, xlm |-> a.xlm - fee, lines |-> a.lines,
                         offers |-> a.offers, data |-> a.data]
  <2>1. a = [open |-> a.open, seq |-> a.seq, xlm |-> a.xlm, lines |-> a.lines, offers |-> a.offers, data |-> a.data]
    BY DEF IsAccount
  <2>2. PICK p, s, x, l, o, d : p = a.open /\ s = a.seq /\ x = a.xlm /\ l = a.lines /\ o = a.offers /\ d = a.data
    OBVIOUS
  <2>3. a = [open |-> p, seq |-> s, xlm |-> x, lines |-> l, offers |-> o, data |-> d]
    BY <2>1, <2>2
  <2>4. [a EXCEPT !.seq = @ + 1] = [open |-> p, seq |-> s + 1, xlm |-> x, lines |-> l, offers |-> o, data |-> d]
    BY <2>3
  <2>6. PICK c : c = [a EXCEPT !.seq = @ + 1]
    OBVIOUS
  <2>8. c = [open |-> p, seq |-> s + 1, xlm |-> x, lines |-> l, offers |-> o, data |-> d]
    BY <2>4, <2>6
  <2>7. [c EXCEPT !.xlm = @ - fee] = [open |-> p, seq |-> s + 1, xlm |-> x - fee, lines |-> l, offers |-> o, data |-> d]
    BY <2>8
  <2>5. Charged(a, fee) = [open |-> p, seq |-> s + 1, xlm |-> x - fee, lines |-> l, offers |-> o, data |-> d]
    BY <2>6, <2>7, Zenon DEF Charged
  <2> QED
    BY <2>2, <2>5
<1>2. PICK c : c = Charged(a, fee)
  OBVIOUS
<1>3. /\ c.open = a.open /\ c.seq = a.seq + 1 /\ c.lines = a.lines /\ c.offers = a.offers /\ c.data = a.data
      /\ a.seq + 1 \in Nat /\ a.xlm - fee \in Int
  BY <1>1, <1>2 DEF IsAccount
<1> QED
  BY <1>1, <1>2, <1>3 DEF IsAccount, Same, Subentries

LEMMA FeesTyped == ASSUME NEW tr \in CleanTx \cup {MergeTx(n) : n \in Nat} PROVE BaseFee * Len(tr.ops) \in Nat
<1>1. Len(tr.ops) \in Nat
  <2>1. CASE tr \in CleanTx
    BY <2>1 DEF CleanTx
  <2>2. CASE \E n \in Nat : tr = MergeTx(n)
    BY <2>2 DEF MergeTx
  <2> QED
    BY <2>1, <2>2
<1>2. PICK n \in Nat : n = Len(tr.ops)
  BY <1>1
<1> QED
  BY <1>2, CleanupAssumption

LEMMA SubentriesNone ==
  ASSUME NEW a, IsAccount(a)
  PROVE  Subentries(a) = 0 <=> DOMAIN a.lines = {} /\ a.offers = {} /\ ~a.data
<1>1. IsFiniteSet(a.offers) /\ IsFiniteSet(DOMAIN a.lines) /\ a.data \in BOOLEAN
  BY FiniteAccount DEF IsAccount
<1>2. PICK l, o : l = Cardinality(DOMAIN a.lines) /\ o = Cardinality(a.offers)
  OBVIOUS
<1>3. /\ l \in Nat /\ o \in Nat
      /\ l = 0 <=> DOMAIN a.lines = {}
      /\ o = 0 <=> a.offers = {}
  BY <1>1, <1>2, FS_CardinalityType, FS_EmptySet
<1>4. Subentries(a) = l + o + (IF a.data THEN 1 ELSE 0)
  BY <1>2 DEF Subentries, One
<1> QED
  BY <1>1, <1>3, <1>4

LEMMA CleanNotMerge ==
  ASSUME NEW tr \in CleanTx, Len(tr.ops) > 0
  PROVE  ~IsMerge(tr)
<1> SUFFICES ASSUME NEW n \in Nat, tr = MergeTx(n) PROVE FALSE
  BY DEF IsMerge
<1>1. tr.ops \in Seq(CleanOp) /\ 1 \in 1..Len(tr.ops)
  BY DEF CleanTx
<1>2. tr.ops[1] \in CleanOp
  BY <1>1
<1>3. tr.ops[1].kind # "merge"
  BY <1>2 DEF CleanOp, AssetOp, Op
<1>4. tr.ops[1].kind = "merge"
  BY DEF MergeTx, Op
<1> QED
  BY <1>3, <1>4

LEMMA TxTyped ==
  ASSUME NEW tr, tr \in CleanTx \/ IsMerge(tr)
  PROVE  tr.seq \in Nat /\ tr.ops \in Seq(AnyOp) /\ BaseFee * Len(tr.ops) \in Nat
<1>1. BaseFee * Len(tr.ops) \in Nat
  BY FeesTyped DEF IsMerge
<1>2. ASSUME tr \in CleanTx PROVE tr.seq \in Nat /\ tr.ops \in Seq(AnyOp)
  BY <1>2, CleanIsOp, SeqMonotonic DEF CleanTx
<1>3. ASSUME NEW n \in Nat, tr = MergeTx(n) PROVE tr.seq \in Nat /\ tr.ops \in Seq(AnyOp)
  <2>1. Op("merge", "xlm", 0) \in AnyOp
    BY DEF AnyOp
  <2>2. <<Op("merge", "xlm", 0)>> \in Seq(AnyOp)
    BY <2>1
  <2> QED
    BY <1>3, <2>2 DEF MergeTx
<1> QED
  BY <1>1, <1>2, <1>3 DEF IsMerge

LEMMA SameEntries ==
  ASSUME NEW a, NEW b, Same(a, b)
  PROVE  Subentries(a) = Subentries(b)
  BY DEF Same, Subentries

\* What the ledger's taking of a transaction makes of the account.
Taken(tr) ==
  /\ acct.open /\ tr.seq = acct.seq + 1 /\ IsAccount(acct')
  /\ acct'.open => /\ acct'.seq = acct.seq + 1 /\ acct'.offers \subseteq acct.offers
                   /\ DOMAIN acct'.lines \subseteq DOMAIN acct.lines /\ (acct'.data => acct.data)
  /\ IsMerge(tr) /\ DestExists => ~acct'.open
  /\ Quiet => acct'.offers \subseteq acct.offers

LEMMA SubmitMoves ==
  ASSUME CleanupInv, NEW tr \in issued, Submit(tr)
  PROVE  Taken(tr)
<1> DEFINE fee == BaseFee * Len(tr.ops)
           r == Run(Charged(acct, fee), tr.ops)
<1>1. /\ acct.open /\ tr.seq = acct.seq + 1
      /\ acct' = IF r.ok THEN r.acct ELSE Charged(acct, fee)
  BY DEF Submit
<1>2. IsAccount(acct) /\ (tr \in CleanTx \/ IsMerge(tr)) /\ (IsMerge(tr) => Subentries(acct) = 0)
  BY <1>1 DEF CleanupInv, Ready
<1>3. tr.ops \in Seq(AnyOp) /\ fee \in Nat
  BY <1>2, TxTyped
<1>4. PICK paid : paid = Charged(acct, fee)
  OBVIOUS
<1>5. IsAccount(paid) /\ Same(acct, paid) /\ paid.seq = acct.seq + 1 /\ Subentries(paid) = Subentries(acct)
  BY <1>2, <1>3, <1>4, ChargedTyped
<1>6. PICK q : q = Run(paid, tr.ops)
  OBVIOUS
<1>7. /\ IsAccount(q.acct) /\ Kept(paid, q.acct)
      /\ acct' = IF q.ok THEN q.acct ELSE paid
  BY <1>1, <1>3, <1>4, <1>5, <1>6, RunKeeps
<1>8. IsAccount(acct')
  BY <1>5, <1>7
<1>9. Kept(paid, acct')
  BY <1>7 DEF Kept
<1>10. acct'.open => /\ acct'.seq = acct.seq + 1 /\ acct'.offers \subseteq acct.offers
                     /\ DOMAIN acct'.lines \subseteq DOMAIN acct.lines /\ (acct'.data => acct.data)
  BY <1>5, <1>9 DEF Kept, Same
<1>11. IsMerge(tr) /\ DestExists => acct' = Gone
  BY <1>2, <1>5, <1>6, <1>7, MergeRuns DEF IsMerge
<1>12. ASSUME Quiet, ~IsMerge(tr) PROVE acct'.open
  <2>1. tr \in CleanTx /\ Fits(tr, acct) /\ IsMerge(tr) = FALSE
    BY <1>1, <1>2, <1>12 DEF CleanupInv, Ready
  <2>2. PICK a, f : IsAccount(a) /\ Same(a, acct) /\ Plays(f, a, tr.ops)
    BY <2>1 DEF Fits
  <2>3. tr.ops \in Seq(CleanOp) /\ Same(a, paid) /\ Len(tr.ops) \in Nat
    BY <1>5, <2>1, <2>2 DEF CleanTx, Same
  <2>4. q.ok /\ Same(f[Len(tr.ops)], q.acct)
    BY <1>5, <1>6, <2>2, <2>3, PlaysRun
  <2>5. f[Len(tr.ops)].open = a.open
    BY <2>2, <2>3, PlaysShrink
  <2> QED
    BY <1>1, <1>7, <2>2, <2>4, <2>5 DEF Same
<1>13. Quiet => acct'.offers \subseteq acct.offers
  <2>1. Quiet /\ IsMerge(tr) => acct'.offers = {}
    BY <1>11 DEF Gone, Quiet
  <2> QED
    BY <1>10, <1>12, <2>1
<1>14. IsMerge(tr) /\ DestExists => ~acct'.open
  BY <1>11 DEF Gone
<1> QED
  BY <1>1, <1>8, <1>10, <1>13, <1>14 DEF Taken

\* A transaction that fits plays on the account, and the ledger keeps the result.
LEMMA SubmitPlays ==
  ASSUME CleanupInv, NEW tr \in issued, Submit(tr), Quiet, ~IsMerge(tr)
  PROVE  /\ tr \in CleanTx /\ Len(tr.ops) > 0 /\ Run(Charged(acct, BaseFee * Len(tr.ops)), tr.ops).ok
         /\ \A a, f : IsAccount(a) /\ Same(a, acct) /\ Plays(f, a, tr.ops) => Same(f[Len(tr.ops)], acct')
         /\ acct.offers # {} => tr.ops[1].kind = "cancel" /\ tr.ops[1].asset \notin acct'.offers
<1> DEFINE fee == BaseFee * Len(tr.ops)
           r == Run(Charged(acct, fee), tr.ops)
<1>1. /\ acct.open /\ tr.seq = acct.seq + 1
      /\ acct' = IF r.ok THEN r.acct ELSE Charged(acct, fee)
  BY DEF Submit
<1>2. IsAccount(acct) /\ tr \in CleanTx /\ Len(tr.ops) > 0 /\ Fits(tr, acct)
  BY <1>1 DEF CleanupInv, Ready
<1>3. tr.ops \in Seq(AnyOp) /\ fee \in Nat /\ tr.ops \in Seq(CleanOp)
  BY <1>2, TxTyped DEF CleanTx
<1>4. PICK paid : paid = Charged(acct, fee)
  OBVIOUS
<1>5. IsAccount(paid) /\ Same(acct, paid)
  BY <1>2, <1>3, <1>4, ChargedTyped
<1>6. PICK q : q = Run(paid, tr.ops)
  OBVIOUS
<1>7. PICK a, f : IsAccount(a) /\ Same(a, acct) /\ Plays(f, a, tr.ops) /\ (a.offers # {} => tr.ops[1].kind = "cancel")
  BY <1>2 DEF Fits
<1>8. ASSUME NEW b, NEW g, IsAccount(b), Same(b, acct), Plays(g, b, tr.ops)
      PROVE  q.ok /\ Same(g[Len(tr.ops)], q.acct)
  <2>1. Same(b, paid)
    BY <1>5, <1>8 DEF Same
  <2> QED
    BY <1>3, <1>5, <1>6, <1>8, <2>1, PlaysRun
<1>9. q.ok
  BY <1>7, <1>8
<1>10. acct' = q.acct
  BY <1>1, <1>4, <1>6, <1>9
<1>11. /\ Applies(paid, tr.ops[1]) /\ Kept(Apply(paid, tr.ops[1]), acct')
  BY <1>2, <1>3, <1>5, <1>6, <1>9, <1>10, RunKeeps
<1>12. ASSUME acct.offers # {} PROVE tr.ops[1].kind = "cancel" /\ tr.ops[1].asset \notin acct'.offers
  <2>1. tr.ops[1].kind = "cancel"
    BY <1>7, <1>12 DEF Same
  <2>2. Apply(paid, tr.ops[1]).offers = paid.offers \ {tr.ops[1].asset}
    BY <1>5, <2>1 DEF Apply, IsAccount
  <2>3. acct'.open
    <3>1. Len(tr.ops) \in 0..Len(tr.ops)
      BY <1>3
    <3>2. f[Len(tr.ops)].open = a.open
      BY <1>3, <1>7, <3>1, PlaysShrink
    <3> QED
      BY <1>1, <1>7, <1>8, <1>10, <3>2 DEF Same
  <2> QED
    BY <1>11, <2>1, <2>2, <2>3 DEF Kept
<1> QED
  BY <1>2, <1>4, <1>6, <1>8, <1>9, <1>10, <1>12

LEMMA SeenMore ==
  ASSUME NEW tr, Submit(tr), NEW s
  PROVE  Seen(s)' <=> Seen(s) \/ s = tr
<1>1. PICK ok : included' = included \cup {[tx |-> tr, ok |-> ok]}
  BY DEF Submit
<1>2. PICK e : e = [tx |-> tr, ok |-> ok]
  OBVIOUS
<1>3. e.tx = tr /\ included' = included \cup {e}
  BY <1>1, <1>2
<1>4. (\E i \in included' : i.tx = s) <=> (\E i \in included : i.tx = s) \/ s = tr
  BY <1>3
<1> QED
  BY <1>4 DEF Seen

LEMMA ReadTaken ==
  ASSUME CleanupInv, NEW tr \in issued, Submit(tr), NEW v, Read(v)
  PROVE  Read(v)'
<1> DEFINE steps == CleanupSteps(v)
           m == Len(steps)
<1>1. Taken(tr) /\ UNCHANGED outside
  BY SubmitMoves DEF Submit, bounds
<1>2. IsAccount(v) /\ IsAccount(acct) /\ v.seq \in Nat /\ acct.seq \in Nat
  BY DEF Read, CleanupInv, IsAccount
<1>3. ASSUME v.open, acct'.open
      PROVE  v.seq <= acct.seq /\ acct'.seq = acct.seq + 1 /\ tr.seq = acct.seq + 1
  BY <1>1, <1>3 DEF Read, Taken
<1>4. ASSUME Quiet, v.open PROVE Tracked(v)'
  <2>1. /\ m \in Nat /\ steps \in Seq(CleanTx)
        /\ \A k \in 1..m : steps[k].seq = v.seq + k /\ Len(steps[k].ops) > 0
    <3>1. /\ CleanupSteps(v) \in Seq(CleanTx)
          /\ \A k \in 1..Len(CleanupSteps(v)) :
               CleanupSteps(v)[k].seq = v.seq + k /\ Len(CleanupSteps(v)[k].ops) > 0
      BY <1>2, StepsTyped
    <3> HIDE DEF steps
    <3>2. steps \in Seq(CleanTx)
      BY <3>1 DEF steps
    <3>3. m \in Nat
      BY <3>2
    <3> QED
      BY <3>1, <3>2, <3>3 DEF steps
  <2> HIDE DEF steps
  <2>2. Tracked(v)
    BY <1>4 DEF Read
  <2>3. ASSUME NEW j \in 1..m, acct'.open, Seen(steps[j])' PROVE Seen(steps[j]) \/ v.seq + j = acct.seq + 1
    BY <1>3, <1>4, <2>1, <2>3, SeenMore
  <2>4. ASSUME NEW j \in 1..m, acct.open, Seen(steps[j]) PROVE v.seq + j <= acct.seq
    <3>1. PICK i \in included : i.tx = steps[j]
      BY <2>4 DEF Seen
    <3> QED
      BY <2>1, <2>4, <3>1 DEF CleanupInv, Took
  <2>5. ASSUME NEW st, Stages(st, v), NEW k \in 0..m, SeenTo(steps, k)', acct'.open, acct'.seq = v.seq + k
        PROVE  Same(st[k], acct)'
    <3>1. k \in 1..m /\ k - 1 \in 0..m /\ acct.seq = v.seq + (k - 1) /\ acct.open
      BY <1>1, <1>2, <1>3, <1>4, <2>1, <2>5 DEF Taken
    <3>2. SeenTo(steps, k - 1)
      <4> SUFFICES ASSUME NEW j \in 1..(k - 1) PROVE Seen(steps[j])
        BY DEF SeenTo
      <4>1. j \in 1..m /\ j \in 1..k /\ v.seq + j # acct.seq + 1
        BY <1>2, <2>1, <3>1
      <4>2. Seen(steps[j])'
        BY <2>5, <4>1 DEF SeenTo
      <4> QED
        BY <2>3, <2>5, <4>1, <4>2
    <3>3. Same(st[k - 1], acct)
      BY <2>2, <2>5, <3>1, <3>2 DEF Tracked, steps
    <3>4. steps[k] = tr
      <4>1. Seen(steps[k])' /\ ~Seen(steps[k])
        <5>1. k \in 1..k
          BY <3>1
        <5>2. Seen(steps[k])'
          BY <2>5, <5>1 DEF SeenTo
        <5>3. ~(v.seq + k <= acct.seq)
          BY <1>2, <3>1
        <5> QED
          BY <2>4, <3>1, <5>2, <5>3
      <4> QED
        BY <4>1, SeenMore
    <3>5. ~IsMerge(tr)
      <4>1. steps[k] \in CleanTx
        BY <2>1, <3>1
      <4> QED
        BY <2>1, <3>1, <3>4, <4>1, CleanNotMerge
    <3>6. /\ IsAccount(st[k - 1])
          /\ \E f : Plays(f, st[k - 1], steps[k].ops) /\ f[Len(steps[k].ops)] = st[k]
      BY <2>5, <3>1 DEF Stages, steps
    <3>7. \A a, f : IsAccount(a) /\ Same(a, acct) /\ Plays(f, a, tr.ops) => Same(f[Len(tr.ops)], acct')
      BY <1>4, <3>5, SubmitPlays
    <3>8. Same(st[k], acct')
      BY <3>3, <3>4, <3>6, <3>7
    <3> QED
      BY <3>8 DEF Same
  <2>6. ASSUME m > 0, SeenTo(steps, m)', acct'.open PROVE Subentries(acct)' = 0
    <3>1. CASE v.seq + m = acct'.seq
      <4>1. PICK st : Stages(st, v)
        BY <1>2, <1>4, StepsPlay DEF Quiet
      <4>2. m \in 0..m
        BY <2>1
      <4>3. Same(st[m], acct)'
        BY <2>5, <2>6, <3>1, <4>1, <4>2
      <4>4. Subentries(st[m]) = 0
        BY <4>1 DEF Stages, steps
      <4> QED
        BY <4>3, <4>4 DEF Same, Subentries
    <3>2. CASE v.seq + m # acct'.seq
      <4>1. m \in 1..m /\ Seen(steps[m])'
        BY <2>1, <2>6 DEF SeenTo
      <4>2. Seen(steps[m]) /\ acct.open
        BY <1>1, <1>3, <1>4, <2>3, <2>6, <3>2, <4>1 DEF Taken
      <4>3. v.seq + m <= acct.seq
        BY <2>4, <4>1, <4>2
      <4>4. SeenTo(steps, m)
        <5> SUFFICES ASSUME NEW j \in 1..m PROVE Seen(steps[j])
          BY DEF SeenTo
        <5>1. v.seq + j # acct.seq + 1
          BY <1>2, <2>1, <4>3
        <5> QED
          BY <2>3, <2>6, <5>1 DEF SeenTo
      <4>5. Subentries(acct) = 0
        BY <2>2, <2>6, <4>2, <4>4 DEF Tracked, steps
      <4>6. DOMAIN acct'.lines = {} /\ acct'.offers = {} /\ ~acct'.data
        BY <1>1, <1>2, <2>6, <4>5, SubentriesNone DEF Taken
      <4>7. PICK b : b = acct'
        OBVIOUS
      <4>8. Subentries(b) = 0
        BY <1>1, <4>6, <4>7, SubentriesNone DEF Taken
      <4> QED
        BY <4>7, <4>8 DEF Subentries
    <3> QED
      BY <3>1, <3>2
  <2> QED
    BY <2>5, <2>6 DEF Tracked, steps
<1>5. Quiet' => Quiet
  BY <1>1 DEF Quiet
<1> QED
  BY <1>2, <1>3, <1>4, <1>5 DEF Read

\* What other hands make of the account.
Changed ==
  /\ acct.open /\ IsAccount(acct') /\ acct'.open /\ outside' \in Nat \ {0} /\ UNCHANGED included
  /\ \/ acct'.seq = acct.seq + 1
     \/ /\ acct'.seq = acct.seq /\ DOMAIN acct'.lines = DOMAIN acct.lines
        /\ acct'.offers = acct.offers /\ acct'.data = acct.data

LEMMA OutsideMoves ==
  ASSUME CleanupInv, Outside
  PROVE  Changed
<1>1. acct.open /\ outside' = outside + 1 /\ UNCHANGED included /\ outside \in Nat /\ IsAccount(acct)
  BY DEF Outside, CleanupInv
<1>2. BaseFee \in Nat
  BY CleanupAssumption
<1>3. PICK b : b = Charged(acct, BaseFee)
  OBVIOUS
<1>4. IsAccount(b) /\ b.open = acct.open /\ b.seq = acct.seq + 1
  BY <1>1, <1>2, <1>3, ChargedTyped DEF Same
<1>5. PICK x \in Assets :
        \/ x \in DOMAIN acct.lines /\ acct' = [acct EXCEPT !.lines[x] = @ + 1]
        \/ acct' = [b EXCEPT !.lines = [y \in DOMAIN @ \cup {x} |-> IF y = x THEN 0 ELSE @[y]]]
        \/ acct' = [b EXCEPT !.offers = @ \cup {x}]
  BY <1>3, Zenon DEF Outside
<1>6. ASSUME x \in DOMAIN acct.lines, acct' = [acct EXCEPT !.lines[x] = @ + 1]
      PROVE  Changed
  <2>1. /\ IsAccount(acct') /\ acct'.open /\ acct'.seq = acct.seq /\ DOMAIN acct'.lines = DOMAIN acct.lines
        /\ acct'.offers = acct.offers /\ acct'.data = acct.data
    BY <1>1, <1>6 DEF IsAccount
  <2> QED
    BY <1>1, <2>1 DEF Changed
<1>7. ASSUME acct' = [b EXCEPT !.lines = [y \in DOMAIN @ \cup {x} |-> IF y = x THEN 0 ELSE @[y]]]
      PROVE  Changed
  <2>1. IsAccount(acct') /\ acct'.open /\ acct'.seq = acct.seq + 1
    BY <1>1, <1>4, <1>7 DEF IsAccount
  <2> QED
    BY <1>1, <2>1 DEF Changed
<1>8. ASSUME acct' = [b EXCEPT !.offers = @ \cup {x}]
      PROVE  Changed
  <2>1. IsAccount(acct') /\ acct'.open /\ acct'.seq = acct.seq + 1
    BY <1>1, <1>4, <1>8 DEF IsAccount
  <2> QED
    BY <1>1, <2>1 DEF Changed
<1> QED
  BY <1>5, <1>6, <1>7, <1>8

LEMMA ReadChanged ==
  ASSUME CleanupInv, Changed, NEW v, Read(v)
  PROVE  Read(v)'
<1>1. ~Quiet'
  BY DEF Changed, Quiet
<1>2. v.seq \in Nat /\ acct.seq \in Nat /\ IsAccount(v) /\ acct.open
  BY DEF Read, IsAccount, CleanupInv, Changed
<1> QED
  BY <1>1, <1>2 DEF Read, Changed

LEMMA FrameRead ==
  ASSUME NEW v
  PROVE  UNCHANGED <<acct, included, outside>> /\ Read(v) => Read(v)'
  BY DEF Read, Tracked, SeenTo, Seen, Quiet, Same

LEMMA HalvedTaken ==
  ASSUME CleanupInv, NEW tr \in issued, Submit(tr), NEW v, Halved(v)
  PROVE  Halved(v)'
<1>1. Taken(tr) /\ UNCHANGED outside
  BY SubmitMoves DEF Submit, bounds
<1>2. Read(v)'
  BY ReadTaken DEF Halved
<1>3. PICK ok : included' = included \cup {[tx |-> tr, ok |-> ok]}
  BY DEF Submit
<1>4. PICK e : e = [tx |-> tr, ok |-> ok]
  OBVIOUS
<1>5. e.tx = tr /\ included' = included \cup {e}
  BY <1>3, <1>4
<1>6. ASSUME Quiet, v.open
      PROVE  /\ acct'.offers \subseteq v.offers
             /\ v.offers # {} => \A i \in included' :
                  i.tx.seq = v.seq + 1 => i.tx.ops[1].kind = "cancel" /\ i.tx.ops[1].asset \notin acct'.offers
  <2>1. acct'.offers \subseteq acct.offers /\ acct.offers \subseteq v.offers
    BY <1>1, <1>6 DEF Taken, Halved
  <2>2. ASSUME v.offers # {}, tr.seq = v.seq + 1
        PROVE  tr.ops[1].kind = "cancel" /\ tr.ops[1].asset \notin acct'.offers
    <3>1. v.seq \in Nat /\ acct.seq \in Nat /\ IsAccount(acct)
      BY DEF Halved, Read, IsAccount, CleanupInv
    <3>2. v.seq = acct.seq
      BY <1>1, <2>2, <3>1 DEF Taken
    <3>3. acct.offers # {}
      BY <1>1, <1>6, <2>2, <3>2 DEF Halved, Read, Taken
    <3>4. Subentries(acct) # 0
      BY <3>1, <3>3, SubentriesNone
    <3>5. ~IsMerge(tr)
      BY <1>1, <3>4 DEF Taken, CleanupInv, Ready
    <3> QED
      BY <1>6, <3>3, <3>5, SubmitPlays
  <2>3. ASSUME v.offers # {}, NEW i \in included, i.tx.seq = v.seq + 1
        PROVE  i.tx.ops[1].kind = "cancel" /\ i.tx.ops[1].asset \notin acct'.offers
    BY <1>6, <2>1, <2>3 DEF Halved
  <2> QED
    BY <1>5, <2>1, <2>2, <2>3
<1>7. Quiet' => Quiet
  BY <1>1 DEF Quiet
<1> QED
  BY <1>2, <1>6, <1>7 DEF Halved

LEMMA FrameHalved ==
  ASSUME NEW v
  PROVE  UNCHANGED <<acct, included, outside>> /\ Halved(v) => Halved(v)'
  BY FrameRead DEF Halved, Quiet

LEMMA HalvedChanged ==
  ASSUME CleanupInv, Changed, NEW v, Halved(v)
  PROVE  Halved(v)'
<1>1. ~Quiet'
  BY DEF Changed, Quiet
<1>2. Read(v)'
  BY ReadChanged DEF Halved
<1> QED
  BY <1>1, <1>2 DEF Halved

LEMMA TookTaken ==
  ASSUME CleanupInv, NEW tr \in issued, Submit(tr)
  PROVE  \A i \in included' : Took(i)'
<1>1. Taken(tr) /\ UNCHANGED outside /\ (tr \in CleanTx \/ IsMerge(tr)) /\ IsAccount(acct) /\ acct.seq \in Nat
  BY SubmitMoves DEF Submit, bounds, CleanupInv, Ready, IsAccount
<1> DEFINE fee == BaseFee * Len(tr.ops)
           r == Run(Charged(acct, fee), tr.ops)
<1>2. included' = included \cup {[tx |-> tr, ok |-> r.ok]}
  BY DEF Submit
<1>3. Quiet => r.ok
  <2>1. CASE ~IsMerge(tr)
    BY <2>1, SubmitPlays
  <2>2. ASSUME Quiet, IsMerge(tr) PROVE r.ok
    <3>1. fee \in Nat
      BY <1>1, TxTyped
    <3>2. PICK paid : paid = Charged(acct, fee)
      OBVIOUS
    <3>3. Subentries(acct) = 0
      BY <1>1, <2>2 DEF Taken, CleanupInv, Ready
    <3>4. IsAccount(paid) /\ Subentries(paid) = 0
      BY <1>1, <3>1, <3>2, <3>3, ChargedTyped
    <3>5. Run(paid, tr.ops).ok
      BY <2>2, <3>4, MergeRuns DEF IsMerge, Quiet
    <3> QED
      BY <3>2, <3>5
  <2> QED
    BY <2>1, <2>2
<1> HIDE DEF r
<1>4. PICK e : e = [tx |-> tr, ok |-> r.ok]
  OBVIOUS
<1>5. e.tx = tr /\ e.ok = r.ok /\ included' = included \cup {e}
  BY <1>2, <1>4
<1>6. Took(e)'
  <2>1. acct'.open => tr.seq <= acct'.seq
    BY <1>1 DEF Taken
  <2>2. IsMerge(tr) /\ DestExists => ~acct'.open
    BY <1>1 DEF Taken
  <2>3. Quiet' => r.ok
    BY <1>1, <1>3 DEF Quiet
  <2> QED
    BY <1>1, <1>5, <2>1, <2>2, <2>3 DEF Took
<1>7. ASSUME NEW i \in included PROVE Took(i)'
  <2>1. Took(i) /\ acct.open
    BY <1>1 DEF CleanupInv, Taken
  <2>2. i.tx.seq \in Nat /\ i.tx.seq <= acct.seq
    BY <2>1, TxTyped DEF Took
  <2>3. acct'.open => i.tx.seq <= acct'.seq
    BY <1>1, <2>2 DEF Taken
  <2>4. Quiet' => i.ok
    BY <1>1, <2>1 DEF Took, Quiet
  <2> QED
    BY <2>1, <2>3, <2>4 DEF Took
<1> QED
  BY <1>5, <1>6, <1>7

LEMMA TookChanged ==
  ASSUME CleanupInv, Changed
  PROVE  \A i \in included' : Took(i)'
<1> SUFFICES ASSUME NEW i \in included PROVE Took(i)'
  BY DEF Changed
<1>1. Took(i) /\ acct.open /\ acct.seq \in Nat /\ ~Quiet'
  BY DEF CleanupInv, Changed, Quiet, IsAccount
<1>2. i.tx.seq \in Nat
  BY <1>1, TxTyped DEF Took
<1>3. i.tx.seq <= acct'.seq
  BY <1>1, <1>2 DEF Took, Changed
<1> QED
  BY <1>1, <1>3 DEF Took

LEMMA ReadyStays ==
  ASSUME CleanupInv, NEW tr \in issued, (\E t \in issued : Submit(t)) \/ Changed
  PROVE  Ready(tr)'
<1>1. Ready(tr) /\ IsAccount(acct) /\ acct.seq \in Nat
  BY DEF CleanupInv, IsAccount
<1>2. tr.seq \in Nat
  BY <1>1, TxTyped DEF Ready
<1>3. ASSUME acct'.open, acct'.seq = acct.seq + 1, acct.open PROVE Ready(tr)'
  BY <1>1, <1>2, <1>3 DEF Ready
<1>4. ASSUME ~acct'.open PROVE Ready(tr)'
  BY <1>1, <1>4 DEF Ready
<1>5. ASSUME NEW t \in issued, Submit(t) PROVE Ready(tr)'
  <2>1. Taken(t)
    BY <1>5, SubmitMoves
  <2> QED
    BY <1>3, <1>4, <2>1 DEF Taken
<1>6. ASSUME Changed, acct'.seq = acct.seq, DOMAIN acct'.lines = DOMAIN acct.lines,
             acct'.offers = acct.offers, acct'.data = acct.data
      PROVE  Ready(tr)'
  <2>1. ~Quiet' /\ acct.open
    BY <1>6 DEF Changed, Quiet
  <2>2. PICK b : b = acct'
    OBVIOUS
  <2>3. Subentries(acct) = 0 => Subentries(b) = 0
    BY <1>1, <1>6, <2>2, SubentriesNone DEF Changed
  <2>4. Subentries(acct) = 0 => Subentries(acct') = 0
    BY <2>2, <2>3
  <2>5. tr.seq <= acct'.seq + 1 /\ (tr.seq = acct'.seq + 1 /\ IsMerge(tr) => Subentries(acct') = 0)
    BY <1>1, <1>6, <2>1, <2>4 DEF Ready
  <2> QED
    BY <1>1, <2>1, <2>5 DEF Ready
<1> QED
  BY <1>3, <1>5, <1>6 DEF Changed

LEMMA SeenStays ==
  ASSUME included \subseteq included', NEW steps, NEW k
  PROVE  SeenTo(steps, k) => SeenTo(steps, k)'
  BY DEF SeenTo, Seen

LEMMA GuidesStays ==
  ASSUME included \subseteq included', \A v : Read(v) => Read(v)', acct'.open => acct.open, NEW w
  PROVE  Guides(w) => Guides(w)'
<1> SUFFICES ASSUME Guides(w) PROVE Guides(w)'
  OBVIOUS
<1>1. ASSUME w.stage \in {"confirm", "cleanup"}, w.steps # <<>>
      PROVE  Read(w.from)' /\ w.from.open /\ w.steps = CleanupSteps(w.from)
  BY <1>1 DEF Guides
<1>2. ASSUME w.stage = "cleanup"
      PROVE  w.steps # <<>> /\ w.index \in 1..Len(w.steps) /\ SeenTo(w.steps, w.index - 1)'
  BY <1>2, SeenStays DEF Guides
<1>3. /\ w = [stage |-> w.stage, plan |-> w.plan, steps |-> w.steps, from |-> w.from, index |-> w.index, watching |-> w.watching]
      /\ w.stage = "plan" => w.steps = <<>>
      /\ w.stage = "merge" => \E n \in Nat : w.steps = <<MergeTx(n)>>
      /\ DestExists /\ w.stage = "done" => ~acct'.open
  BY DEF Guides
<1> QED
  BY <1>1, <1>2, <1>3 DEF Guides

LEMMA LedgerKeeps ==
  ASSUME CleanupInv, (\E tr \in issued : Submit(tr)) \/ Outside
  PROVE  CleanupInv'
<1>1. (\E tr \in issued : Submit(tr)) \/ Changed
  BY OutsideMoves
<1>2. UNCHANGED <<cache, half, wizard, issued>>
  BY DEF Submit, Outside
<1>3. \A tr \in issued : Ready(tr)'
  BY <1>1, ReadyStays
<1>4. \A v : Read(v) => Read(v)'
  <2> SUFFICES ASSUME NEW v, Read(v) PROVE Read(v)'
    OBVIOUS
  <2> QED
    BY <1>1, ReadTaken, ReadChanged
<1>5. \A v : Halved(v) => Halved(v)'
  <2> SUFFICES ASSUME NEW v, Halved(v) PROVE Halved(v)'
    OBVIOUS
  <2> QED
    BY <1>1, HalvedTaken, HalvedChanged
<1>6. \A i \in included' : Took(i)'
  BY <1>1, TookTaken, TookChanged
<1>7. IsAccount(acct') /\ outside' \in Nat /\ (acct'.open => acct.open) /\ included \subseteq included'
  <2>1. ASSUME NEW tr \in issued, Submit(tr)
        PROVE  IsAccount(acct') /\ outside' \in Nat /\ (acct'.open => acct.open) /\ included \subseteq included'
    <3>1. Taken(tr) /\ UNCHANGED outside /\ included \subseteq included'
      BY <2>1, SubmitMoves DEF Submit, bounds
    <3> QED
      BY <3>1 DEF Taken, CleanupInv
  <2> QED
    BY <1>1, <2>1 DEF Changed
<1>8. PICK w : w = wizard
  OBVIOUS
<1>9. Guides(w)'
  BY <1>4, <1>7, <1>8, GuidesStays DEF CleanupInv
<1>10. Guides(wizard)'
  BY <1>2, <1>8, <1>9
<1>11. (cache # <<>> => Read(cache[1].value))'
  <2>1. PICK v : v = cache[1].value
    OBVIOUS
  <2>2. cache # <<>> => Read(v)'
    BY <1>4, <2>1 DEF CleanupInv
  <2> QED
    BY <1>2, <2>1, <2>2
<1>12. (half # <<>> => Halved(half[1]))'
  <2>1. PICK v : v = half[1]
    OBVIOUS
  <2>2. half # <<>> => Halved(v)'
    BY <1>5, <2>1 DEF CleanupInv
  <2> QED
    BY <1>2, <2>1, <2>2
<1> QED
  BY <1>2, <1>3, <1>6, <1>7, <1>10, <1>11, <1>12 DEF CleanupInv

LEMMA Steady ==
  ASSUME UNCHANGED <<acct, included, outside>>
  PROVE  /\ \A i : Took(i) => Took(i)'
         /\ \A tr : Ready(tr) => Ready(tr)'
         /\ \A v : Read(v) => Read(v)'
         /\ \A v : Halved(v) => Halved(v)'
         /\ \A w : Guides(w) => Guides(w)'
<1>1. \A i : Took(i) => Took(i)'
  BY DEF Took, Quiet
<1>2. \A tr : Ready(tr) => Ready(tr)'
  BY DEF Ready, Quiet, Fits, Same
<1>3. \A v : Read(v) => Read(v)'
  BY FrameRead
<1>4. \A v : Halved(v) => Halved(v)'
  BY FrameHalved
<1>5. \A w : Guides(w) => Guides(w)'
  BY <1>3, GuidesStays
<1> QED
  BY <1>1, <1>2, <1>3, <1>4, <1>5

\* The ledger is left alone; what is new is as it should be.
LEMMA ServiceKeeps ==
  ASSUME CleanupInv, UNCHANGED <<acct, included, outside>>,
         \A tr \in issued' : tr \in issued \/ Ready(tr),
         cache' = cache \/ cache' = <<>> \/ Read(cache'[1].value),
         half' = half \/ half' = <<>> \/ Halved(half'[1]),
         Guides(wizard')
  PROVE  CleanupInv'
<1>1. \A tr \in issued' : Ready(tr)'
  <2> SUFFICES ASSUME NEW tr \in issued' PROVE Ready(tr)'
    OBVIOUS
  <2>1. Ready(tr)
    BY DEF CleanupInv
  <2> QED
    BY <2>1, Steady
<1>2. (cache # <<>> => Read(cache[1].value))'
  <2>1. PICK v : v = cache'[1].value
    OBVIOUS
  <2>2. cache' # <<>> => Read(v)
    BY <2>1 DEF CleanupInv
  <2>3. cache' # <<>> => Read(v)'
    BY <2>2, Steady
  <2> QED
    BY <2>1, <2>3
<1>3. (half # <<>> => Halved(half[1]))'
  <2>1. PICK v : v = half'[1]
    OBVIOUS
  <2>2. half' # <<>> => Halved(v)
    BY <2>1 DEF CleanupInv
  <2>3. half' # <<>> => Halved(v)'
    BY <2>2, Steady
  <2> QED
    BY <2>1, <2>3
<1>4. Guides(wizard)'
  <2>1. PICK w : w = wizard'
    OBVIOUS
  <2>2. Guides(w)'
    BY <2>1, Steady
  <2> QED
    BY <2>1, <2>2
<1>5. IsAccount(acct)' /\ outside' \in Nat /\ \A i \in included' : Took(i)'
  <2>1. \A i \in included : Took(i)'
    BY Steady DEF CleanupInv
  <2> QED
    BY <2>1 DEF CleanupInv
<1> QED
  BY <1>1, <1>2, <1>3, <1>4, <1>5 DEF CleanupInv

LEMMA ReadNow ==
  ASSUME CleanupInv, NEW v, v = acct
  PROVE  Halved(v)
<1> DEFINE steps == CleanupSteps(v)
           m == Len(steps)
<1>1. IsAccount(v) /\ v.seq \in Nat
  BY DEF CleanupInv, IsAccount
<1>2. ASSUME v.open PROVE \A i \in included : i.tx.seq # v.seq + 1
  <2> SUFFICES ASSUME NEW i \in included PROVE i.tx.seq # v.seq + 1
    OBVIOUS
  <2>1. i.tx.seq \in Nat /\ i.tx.seq <= v.seq
    BY <1>2, TxTyped DEF CleanupInv, Took
  <2> QED
    BY <1>1, <2>1
<1>3. ASSUME v.open PROVE Tracked(v)
  <2>1. /\ CleanupSteps(v) \in Seq(CleanTx)
        /\ \A k \in 1..Len(CleanupSteps(v)) : CleanupSteps(v)[k].seq = v.seq + k
    BY <1>1, StepsTyped
  <2> HIDE DEF steps
  <2>2. m \in Nat /\ \A k \in 1..m : steps[k].seq = v.seq + k
    BY <2>1 DEF steps
  <2>3. ASSUME m > 0 PROVE ~SeenTo(steps, m)
    <3>1. 1 \in 1..m /\ steps[1].seq = v.seq + 1
      BY <2>2, <2>3
    <3>2. ~Seen(steps[1])
      BY <1>2, <1>3, <3>1 DEF Seen
    <3> QED
      BY <3>1, <3>2 DEF SeenTo
  <2>4. ASSUME NEW st, Stages(st, v), NEW k \in 0..m, acct.seq = v.seq + k PROVE Same(st[k], acct)
    <3>1. k = 0
      BY <1>1, <2>2, <2>4
    <3> QED
      BY <2>4, <3>1 DEF Stages, Same
  <2> QED
    BY <2>3, <2>4 DEF Tracked, steps
<1>4. Read(v)
  BY <1>1, <1>3 DEF Read
<1> QED
  BY <1>2, <1>4 DEF Halved

LEMMA CollectFirst ==
  ASSUME NEW a, IsAccount(a), DestExists, DestTrusts = Assets, Len(CollectCleanupOps(a)) > 0,
         CollectCleanupOps(a)[1].kind = "cancel"
  PROVE  CollectCleanupOps(a)[1].asset \in a.offers
<1>1. PICK ops : ops = CollectCleanupOps(a)
  OBVIOUS
<1>2. PICK f : Plays(f, a, ops)
  BY <1>1, PlanPlays
<1>3. Len(ops) \in Nat /\ Len(ops) > 0
  BY <1>1, CollectTyped
<1>4. 1 \in 1..Len(ops) /\ 1 - 1 = 0
  BY <1>3
<1>5. Applies(a, ops[1])
  BY <1>2, <1>4 DEF Plays
<1> QED
  BY <1>1, <1>5 DEF Applies

\* An account put together of two reads: if an offer went in between, its steps
\* cannot have been seen.
LEMMA ReadTogether ==
  ASSUME CleanupInv, NEW h, Halved(h), NEW v,
         v = IF h.open THEN [h EXCEPT !.offers = acct.offers] ELSE h
  PROVE  Read(v)
<1>1. IsAccount(h) /\ IsAccount(acct) /\ Read(h)
  BY DEF CleanupInv, Halved, Read
<1>2. CASE ~h.open
  BY <1>1, <1>2
<1>3. CASE h.open
  <2>1. v = [open |-> h.open, seq |-> h.seq, xlm |-> h.xlm, lines |-> h.lines, offers |-> acct.offers, data |-> h.data]
    BY <1>1, <1>3 DEF IsAccount
  <2>2. /\ v.open = h.open /\ v.seq = h.seq /\ v.lines = h.lines /\ v.offers = acct.offers /\ v.data = h.data
        /\ IsAccount(v) /\ h.seq \in Nat /\ acct.seq \in Nat
    BY <1>1, <2>1 DEF IsAccount
  <2>3. v.open /\ acct.open =>
          /\ v.seq <= acct.seq
          /\ v.seq = acct.seq => DOMAIN v.lines = DOMAIN acct.lines /\ v.offers = acct.offers /\ v.data = acct.data
    BY <1>1, <2>2 DEF Read
  <2>4. ASSUME Quiet, v.open PROVE Tracked(v)
    <3>1. CASE h.offers = acct.offers
      <4>1. v = h
        BY <1>1, <2>1, <3>1 DEF IsAccount
      <4> QED
        BY <1>1, <2>4, <4>1 DEF Read
    <3>2. CASE h.offers # acct.offers /\ acct.open
      <4>1. acct.offers \subseteq h.offers /\ h.offers # {}
        BY <1>3, <2>4, <3>2 DEF Halved
      <4>2. v.seq < acct.seq
        BY <1>1, <1>3, <2>2, <3>2 DEF Read
      <4>3. /\ CleanupSteps(v) \in Seq(CleanTx)
            /\ \A k \in 1..Len(CleanupSteps(v)) : CleanupSteps(v)[k].seq = v.seq + k
            /\ Len(CleanupSteps(v)) > 0 =>
                 CleanupSteps(v)[1].ops[1] = CollectCleanupOps(v)[1] /\ Len(CollectCleanupOps(v)) > 0
        BY <2>2, StepsTyped
      <4>4. PICK steps : steps = CleanupSteps(v)
        OBVIOUS
      <4>5. Len(steps) \in Nat
        BY <4>3, <4>4
      <4>6. ASSUME Len(steps) > 0 PROVE ~Seen(steps[1])
        <5>1. 1 \in 1..Len(steps)
          BY <4>5, <4>6
        <5>2. steps[1].seq = v.seq + 1 /\ steps[1].ops[1] = CollectCleanupOps(v)[1] /\ Len(CollectCleanupOps(v)) > 0
          BY <4>3, <4>4, <4>6, <5>1
        <5>3. steps[1].ops[1].kind = "cancel" => steps[1].ops[1].asset \in acct.offers
          BY <2>2, <2>4, <5>2, CollectFirst DEF Quiet
        <5>4. ASSUME NEW i \in included, i.tx = steps[1] PROVE FALSE
          BY <1>3, <2>2, <2>4, <4>1, <5>2, <5>3, <5>4 DEF Halved
        <5> QED
          BY <5>4 DEF Seen
      <4>7. ASSUME NEW k \in 1..Len(steps) PROVE ~SeenTo(steps, k)
        <5>1. 1 \in 1..k /\ Len(steps) > 0
          BY <4>5
        <5> QED
          BY <4>6, <5>1 DEF SeenTo
      <4>8. ASSUME NEW k \in 0..Len(steps), acct.seq = v.seq + k PROVE k \in 1..Len(steps)
        BY <2>2, <4>2, <4>5, <4>8
      <4>9. Len(steps) > 0 => Len(steps) \in 1..Len(steps)
        BY <4>5
      <4> QED
        BY <4>4, <4>7, <4>8, <4>9 DEF Tracked
    <3>3. CASE ~acct.open
      BY <3>3 DEF Tracked
    <3> QED
      BY <3>1, <3>2, <3>3
  <2> QED
    BY <2>2, <2>3, <2>4 DEF Read
<1> QED
  BY <1>2, <1>3

LEMMA StepReady ==
  ASSUME CleanupInv, NEW v, Read(v), v.open, NEW k \in 1..Len(CleanupSteps(v)), SeenTo(CleanupSteps(v), k - 1)
  PROVE  Ready(CleanupSteps(v)[k])
<1>1. PICK steps : steps = CleanupSteps(v)
  OBVIOUS
<1>2. IsAccount(v) /\ v.seq \in Nat /\ acct.seq \in Nat
  BY DEF Read, CleanupInv, IsAccount
<1>3. /\ steps \in Seq(CleanTx)
      /\ \A j \in 1..Len(steps) : steps[j].seq = v.seq + j /\ Len(steps[j].ops) > 0
  BY <1>1, <1>2, StepsTyped
<1>4. Len(steps) \in Nat /\ k \in 1..Len(steps)
  BY <1>1, <1>3
<1>5. PICK tr : tr = steps[k]
  OBVIOUS
<1>6. tr \in CleanTx /\ tr.seq = v.seq + k /\ Len(tr.ops) > 0
  BY <1>3, <1>4, <1>5
<1>7. ~IsMerge(tr)
  BY <1>6, CleanNotMerge
<1>n. PICK n, s, t, l : n = v.seq /\ s = acct.seq /\ t = tr.seq /\ l = Len(steps)
  OBVIOUS
<1>m. /\ n \in Nat /\ s \in Nat /\ l \in Nat /\ k \in 1..l /\ t = n + k
      /\ n + (k - 1) <= s => t <= s + 1
      /\ t = s + 1 => k - 1 \in 0..l /\ s = n + (k - 1)
  <2>1. n \in Nat /\ s \in Nat /\ l \in Nat /\ k \in 1..l /\ t = n + k
    BY <1>2, <1>4, <1>6, <1>n
  <2> QED
    BY <2>1
<1>8. ASSUME acct.open PROVE tr.seq <= acct.seq + 1
  <2>1. CASE k = 1
    BY <1>2, <1>6, <1>8, <2>1 DEF Read
  <2>2. CASE k # 1
    <3>1. k - 1 \in 1..(k - 1) /\ k - 1 \in 1..Len(steps)
      BY <1>4, <2>2
    <3>2. PICK i \in included : i.tx = steps[k - 1]
      BY <1>1, <3>1 DEF SeenTo, Seen
    <3>3. v.seq + (k - 1) <= acct.seq
      BY <1>3, <1>8, <3>1, <3>2 DEF CleanupInv, Took
    <3> QED
      BY <1>m, <1>n, <3>3
  <2> QED
    BY <2>1, <2>2
<1>9. ASSUME acct.open, tr.seq = acct.seq + 1, Quiet PROVE Fits(tr, acct)
  <2>1. PICK st : Stages(st, v)
    BY <1>2, <1>9, StepsPlay DEF Quiet
  <2>2. k - 1 \in 0..Len(steps) /\ acct.seq = v.seq + (k - 1)
    BY <1>m, <1>n, <1>9
  <2>3. Tracked(v)
    BY <1>9 DEF Read
  <2>4. Same(st[k - 1], acct)
    BY <1>1, <1>9, <2>1, <2>2, <2>3 DEF Tracked
  <2>5. /\ IsAccount(st[k - 1])
        /\ \E f : Plays(f, st[k - 1], tr.ops)
        /\ st[k - 1].offers # {} => tr.ops[1].kind = "cancel"
    BY <1>1, <1>4, <1>5, <2>1, <2>2 DEF Stages
  <2> QED
    BY <2>4, <2>5 DEF Fits
<1>10. Ready(tr)
  BY <1>6, <1>7, <1>8, <1>9 DEF Ready
<1> QED
  BY <1>1, <1>5, <1>10

LEMMA GuidesIdle ==
  ASSUME NEW g, NEW plan, g \in {"input", "plan"} \/ (g = "done" /\ (DestExists => ~acct.open))
  PROVE  Guides(Showing(g, plan, <<>>, Gone, "no"))
<1>1. PICK w : w = Showing(g, plan, <<>>, Gone, "no")
  OBVIOUS
<1>2. /\ w = [stage |-> w.stage, plan |-> w.plan, steps |-> w.steps, from |-> w.from, index |-> w.index, watching |-> w.watching]
      /\ w.stage = g /\ w.steps = <<>>
  BY <1>1 DEF Showing
<1>3. Guides(w)
  BY <1>2 DEF Guides
<1> QED
  BY <1>1, <1>3

LEMMA ReadAccountKeeps == CleanupInv /\ ReadAccount => CleanupInv'
<1> SUFFICES ASSUME CleanupInv, ReadAccount PROVE CleanupInv'
  OBVIOUS
<1>1. PICK v : v = acct
  OBVIOUS
<1>2. half' = <<v>> /\ UNCHANGED <<acct, included, outside, cache, wizard, issued>>
  BY <1>1 DEF ReadAccount, ledger, bounds
<1>3. Halved(v)
  BY <1>1, ReadNow
<1>4. half'[1] = v /\ Guides(wizard') /\ issued' = issued /\ cache' = cache
  BY <1>2 DEF CleanupInv
<1>5. Halved(half'[1])
  BY <1>3, <1>4
<1> QED
  BY <1>2, <1>4, <1>5, ServiceKeeps

LEMMA ReadOffersKeeps == CleanupInv /\ ReadOffers => CleanupInv'
<1> SUFFICES ASSUME CleanupInv, ReadOffers PROVE CleanupInv'
  OBVIOUS
<1>1. PICK h : h = half[1]
  OBVIOUS
<1>2. PICK v : v = IF h.open THEN [h EXCEPT !.offers = acct.offers] ELSE h
  OBVIOUS
<1>3. /\ cache' = <<[value |-> v, expiresAt |-> clock + Ttl]>> /\ half' = <<>> /\ half # <<>>
      /\ UNCHANGED <<acct, included, outside, wizard, issued>>
  BY <1>1, <1>2 DEF ReadOffers, ledger, bounds
<1>4. Read(v)
  BY <1>1, <1>2, <1>3, ReadTogether DEF CleanupInv
<1>5. cache'[1].value = v /\ Guides(wizard') /\ issued' = issued
  BY <1>3 DEF CleanupInv
<1>6. Read(cache'[1].value)
  BY <1>4, <1>5
<1> QED
  BY <1>3, <1>5, <1>6, ServiceKeeps

\* Steps that only move the wizard, and show no transaction.
LEMMA WizardKeeps ==
  ASSUME CleanupInv, UNCHANGED <<acct, included, outside, cache, half, issued>>, Guides(wizard')
  PROVE  CleanupInv'
<1>1. cache' = cache /\ half' = half /\ issued' = issued /\ UNCHANGED <<acct, included, outside>>
  OBVIOUS
<1> QED
  BY <1>1, ServiceKeeps

LEMMA AnswersKeep == CleanupInv /\ (Planned \/ Executed) => CleanupInv'
<1>1. ASSUME CleanupInv, Planned PROVE CleanupInv'
  <2>1. /\ wizard' = Showing("plan", CleanupPlan(cache[1].value), <<>>, Gone, "no")
        /\ UNCHANGED <<acct, included, outside, cache, half, issued>>
    BY <1>1 DEF Planned, ledger, bounds
  <2>2. PICK p : p = CleanupPlan(cache[1].value)
    OBVIOUS
  <2>3. Guides(Showing("plan", p, <<>>, Gone, "no"))
    BY GuidesIdle
  <2>4. Guides(wizard')
    BY <2>1, <2>2, <2>3
  <2> QED
    BY <1>1, <2>1, <2>4, WizardKeeps
<1>2. ASSUME CleanupInv, Executed PROVE CleanupInv'
  <2>1. PICK a : a = cache[1].value
    OBVIOUS
  <2>2. /\ cache # <<>> /\ a.open /\ wizard' = Showing("confirm", CleanupPlan(a), CleanupSteps(a), a, "no")
        /\ UNCHANGED <<acct, included, outside, cache, half, issued>>
    BY <1>2, <2>1 DEF Executed, Answered, Fresh, ledger, bounds
  <2>3. Read(a)
    BY <1>2, <2>1, <2>2 DEF CleanupInv
  <2>4. PICK p, s : p = CleanupPlan(a) /\ s = CleanupSteps(a)
    OBVIOUS
  <2>5. PICK w : w = Showing("confirm", p, s, a, "no")
    OBVIOUS
  <2>6. /\ w = [stage |-> w.stage, plan |-> w.plan, steps |-> w.steps, from |-> w.from, index |-> w.index, watching |-> w.watching]
        /\ w.stage = "confirm" /\ w.steps = s /\ w.from = a
    BY <2>5 DEF Showing
  <2>7. Guides(w)
    BY <2>2, <2>3, <2>4, <2>6 DEF Guides
  <2>8. wizard' = w
    BY <2>2, <2>4, <2>5
  <2>9. Guides(wizard')
    BY <2>7, <2>8
  <2> QED
    BY <1>2, <2>2, <2>9, WizardKeeps
<1> QED
  BY <1>1, <1>2

LEMMA MergedKeeps == CleanupInv /\ Merged => CleanupInv'
<1> SUFFICES ASSUME CleanupInv, Merged PROVE CleanupInv'
  OBVIOUS
<1>1. PICK a : a = cache[1].value
  OBVIOUS
<1>2. /\ cache # <<>> /\ a.open /\ Subentries(a) = 0
      /\ wizard' = Showing("merge", NoPlan, <<MergeStep(a)>>, Gone, "yes")
      /\ issued' = issued \cup {MergeStep(a)} /\ cache' = <<>>
      /\ UNCHANGED <<acct, included, outside, half>>
  BY <1>1 DEF Merged, Answered, Fresh, CleanupPlan, ledger, bounds
<1>3. Read(a) /\ IsAccount(a) /\ IsAccount(acct)
  BY <1>1, <1>2 DEF CleanupInv, Read
<1>4. PICK n : n = a.seq + 1
  OBVIOUS
<1>5. MergeStep(a) = MergeTx(n) /\ n \in Nat /\ a.seq \in Nat /\ acct.seq \in Nat
  BY <1>3, <1>4 DEF MergeStep, MergeTx, IsAccount
<1>6. PICK tr : tr = MergeTx(n)
  OBVIOUS
<1>7. IsMerge(tr) /\ tr.seq = n
  BY <1>5, <1>6 DEF IsMerge, MergeTx
<1>8. ASSUME acct.open PROVE tr.seq <= acct.seq + 1 /\ (tr.seq = acct.seq + 1 => Subentries(acct) = 0)
  <2>1. a.seq <= acct.seq
    BY <1>2, <1>3, <1>8 DEF Read
  <2>2. ASSUME a.seq = acct.seq PROVE Subentries(acct) = 0
    <3>1. DOMAIN a.lines = DOMAIN acct.lines /\ a.offers = acct.offers /\ a.data = acct.data
      BY <1>2, <1>3, <1>8, <2>2 DEF Read
    <3> QED
      BY <1>2, <1>3, <3>1, SubentriesNone
  <2> QED
    BY <1>4, <1>5, <1>7, <2>1, <2>2
<1>9. Ready(tr)
  BY <1>7, <1>8 DEF Ready
<1>10. PICK w : w = Showing("merge", NoPlan, <<tr>>, Gone, "yes")
  OBVIOUS
<1>11. /\ w = [stage |-> w.stage, plan |-> w.plan, steps |-> w.steps, from |-> w.from, index |-> w.index, watching |-> w.watching]
       /\ w.stage = "merge" /\ w.steps = <<tr>>
  BY <1>10 DEF Showing
<1>12. Guides(w)
  BY <1>5, <1>6, <1>11 DEF Guides
<1>13. wizard' = w /\ issued' = issued \cup {tr}
  BY <1>2, <1>5, <1>6, <1>10
<1>14. Guides(wizard') /\ \A t \in issued' : t \in issued \/ Ready(t)
  BY <1>9, <1>12, <1>13
<1> QED
  BY <1>2, <1>14, ServiceKeeps

LEMMA ProceedKeeps == CleanupInv /\ ProceedFromPlan => CleanupInv'
<1> SUFFICES ASSUME CleanupInv, ProceedFromPlan PROVE CleanupInv'
  OBVIOUS
<1>1. /\ UNCHANGED <<acct, included, outside, cache, half, issued>>
      /\ wizard' = wizard \/ (wizard.stage = "plan" /\ wizard' = [wizard EXCEPT !.stage = "confirm"])
  BY DEF ProceedFromPlan, ledger, bounds
<1>2. PICK u : u = wizard
  OBVIOUS
<1>3. Guides(u)
  BY <1>2 DEF CleanupInv
<1>4. PICK w : w = wizard'
  OBVIOUS
<1>5. ASSUME u.stage = "plan", w = [u EXCEPT !.stage = "confirm"] PROVE Guides(w)
  <2>1. /\ u = [stage |-> u.stage, plan |-> u.plan, steps |-> u.steps, from |-> u.from, index |-> u.index, watching |-> u.watching]
        /\ u.steps = <<>>
    BY <1>3, <1>5 DEF Guides
  <2>2. PICK p, s, f, i, t : p = u.plan /\ s = u.steps /\ f = u.from /\ i = u.index /\ t = u.watching
    OBVIOUS
  <2>3. w = [stage |-> "confirm", plan |-> p, steps |-> s, from |-> f, index |-> i, watching |-> t] /\ s = <<>>
    BY <1>5, <2>1, <2>2
  <2>4. /\ w = [stage |-> w.stage, plan |-> w.plan, steps |-> w.steps, from |-> w.from, index |-> w.index, watching |-> w.watching]
        /\ w.stage = "confirm" /\ w.steps = <<>>
    BY <2>3
  <2> QED
    BY <2>4 DEF Guides
<1>6. Guides(w)
  BY <1>1, <1>2, <1>3, <1>4, <1>5
<1>7. Guides(wizard')
  BY <1>4, <1>6
<1> QED
  BY <1>1, <1>7, WizardKeeps

LEMMA ConfirmPlanKeeps == CleanupInv /\ ConfirmPlan => CleanupInv'
<1> SUFFICES ASSUME CleanupInv, ConfirmPlan PROVE CleanupInv'
  OBVIOUS
<1>1. PICK u : u = wizard
  OBVIOUS
<1>2. Guides(u) /\ u.stage = "confirm" /\ UNCHANGED <<acct, included, outside, cache, half>>
  BY <1>1 DEF CleanupInv, ConfirmPlan, ledger, bounds
<1>3. CASE u.steps = <<>>
  <2>1. UNCHANGED <<wizard, issued>>
    BY <1>1, <1>3 DEF ConfirmPlan
  <2>2. Guides(wizard')
    BY <1>1, <1>2, <2>1
  <2> QED
    BY <1>2, <2>1, <2>2, WizardKeeps
<1>4. CASE u.steps # <<>>
  <2>1. wizard' = Showing("cleanup", u.plan, u.steps, u.from, "yes") /\ issued' = issued \cup {u.steps[1]}
    BY <1>1, <1>4 DEF ConfirmPlan
  <2>2. PICK v, s, p : v = u.from /\ s = u.steps /\ p = u.plan
    OBVIOUS
  <2>3. Read(v) /\ v.open /\ s = CleanupSteps(v) /\ s # <<>>
    BY <1>2, <1>4, <2>2 DEF Guides
  <2>4. IsAccount(v)
    BY <2>3 DEF Read
  <2>5. s \in Seq(CleanTx)
    BY <2>3, <2>4, StepsTyped
  <2>6. 1 \in 1..Len(s) /\ 1 - 1 = 0
    BY <2>3, <2>5
  <2>7. SeenTo(s, 0)
    BY DEF SeenTo
  <2>8. Ready(s[1])
    BY <2>3, <2>6, <2>7, StepReady
  <2>9. PICK w : w = Showing("cleanup", p, s, v, "yes")
    OBVIOUS
  <2>10. /\ w = [stage |-> w.stage, plan |-> w.plan, steps |-> w.steps, from |-> w.from, index |-> w.index, watching |-> w.watching]
         /\ w.stage = "cleanup" /\ w.steps = s /\ w.from = v /\ w.index = 1
    BY <2>9 DEF Showing
  <2>11. Guides(w)
    BY <2>3, <2>6, <2>7, <2>10 DEF Guides
  <2>12. wizard' = w /\ issued' = issued \cup {s[1]}
    BY <2>1, <2>2, <2>9
  <2>13. Guides(wizard') /\ \A t \in issued' : t \in issued \/ Ready(t)
    BY <2>8, <2>11, <2>12
  <2> QED
    BY <1>2, <2>13, ServiceKeeps
<1> QED
  BY <1>3, <1>4

LEMMA WatchCleanupKeeps == CleanupInv /\ WatchCleanup => CleanupInv'
<1> SUFFICES ASSUME CleanupInv, WatchCleanup PROVE CleanupInv'
  OBVIOUS
<1>1. PICK u : u = wizard
  OBVIOUS
<1>2. PICK p, s, v, i, t : p = u.plan /\ s = u.steps /\ v = u.from /\ i = u.index /\ t = u.watching
  OBVIOUS
<1>3. Guides(u) /\ u.stage = "cleanup" /\ Seen(s[i]) /\ UNCHANGED <<acct, included, outside, cache, half>>
  BY <1>1, <1>2 DEF CleanupInv, WatchCleanup, ledger, bounds
<1>4. u = [stage |-> "cleanup", plan |-> p, steps |-> s, from |-> v, index |-> i, watching |-> t]
  BY <1>2, <1>3 DEF Guides
<1>5. /\ s # <<>> /\ i \in 1..Len(s) /\ SeenTo(s, i - 1)
      /\ Read(v) /\ v.open /\ s = CleanupSteps(v)
  BY <1>2, <1>3 DEF Guides
<1>6. IsAccount(v)
  BY <1>5 DEF Read
<1>7. s \in Seq(CleanTx) /\ Len(s) \in Nat
  <2>1. s \in Seq(CleanTx)
    BY <1>5, <1>6, StepsTyped
  <2> QED
    BY <2>1
<1>8. CASE i < Len(s)
  <2>1. wizard' = [u EXCEPT !.index = @ + 1] /\ issued' = issued \cup {s[i + 1]}
    BY <1>1, <1>2, <1>8 DEF WatchCleanup
  <2>2. i + 1 \in 1..Len(s) /\ (i + 1) - 1 = i
    BY <1>5, <1>7, <1>8
  <2>3. SeenTo(s, i)
    <3> SUFFICES ASSUME NEW j \in 1..i PROVE Seen(s[j])
      BY DEF SeenTo
    <3>1. j = i \/ j \in 1..(i - 1)
      BY <1>5, <1>7
    <3> QED
      BY <1>3, <1>5, <3>1 DEF SeenTo
  <2>4. PICK j : j = i + 1
    OBVIOUS
  <2>5. j \in 1..Len(s) /\ j - 1 = i
    BY <2>2, <2>4
  <2>6. Ready(s[j])
    BY <1>5, <2>3, <2>5, StepReady
  <2>7. PICK w : w = [u EXCEPT !.index = @ + 1]
    OBVIOUS
  <2>8. w = [stage |-> "cleanup", plan |-> p, steps |-> s, from |-> v, index |-> j, watching |-> t]
    BY <1>4, <2>4, <2>7
  <2>9. /\ w = [stage |-> w.stage, plan |-> w.plan, steps |-> w.steps, from |-> w.from, index |-> w.index, watching |-> w.watching]
        /\ w.stage = "cleanup" /\ w.steps = s /\ w.from = v /\ w.index = j
    BY <2>8
  <2>10. Guides(w)
    BY <1>5, <2>3, <2>5, <2>9 DEF Guides
  <2>11. wizard' = w /\ issued' = issued \cup {s[j]}
    BY <2>1, <2>4, <2>7
  <2>12. Guides(wizard') /\ \A x \in issued' : x \in issued \/ Ready(x)
    BY <2>6, <2>10, <2>11
  <2> QED
    BY <1>3, <2>12, ServiceKeeps
<1>9. CASE ~(i < Len(s))
  <2>1. wizard' = [u EXCEPT !.watching = "no"] /\ UNCHANGED issued
    BY <1>1, <1>2, <1>9 DEF WatchCleanup
  <2>2. PICK w : w = [u EXCEPT !.watching = "no"]
    OBVIOUS
  <2>3. w = [stage |-> "cleanup", plan |-> p, steps |-> s, from |-> v, index |-> i, watching |-> "no"]
    BY <1>4, <2>2
  <2>4. /\ w = [stage |-> w.stage, plan |-> w.plan, steps |-> w.steps, from |-> w.from, index |-> w.index, watching |-> w.watching]
        /\ w.stage = "cleanup" /\ w.steps = s /\ w.from = v /\ w.index = i
    BY <2>3
  <2>5. Guides(w)
    BY <1>5, <2>4 DEF Guides
  <2>6. Guides(wizard')
    BY <2>1, <2>2, <2>5
  <2> QED
    BY <1>3, <2>1, <2>6, WizardKeeps
<1> QED
  BY <1>8, <1>9

LEMMA WatchMergeKeeps == CleanupInv /\ WatchMerge => CleanupInv'
<1> SUFFICES ASSUME CleanupInv, WatchMerge PROVE CleanupInv'
  OBVIOUS
<1>1. /\ wizard.stage = "merge" /\ Seen(wizard.steps[1]) /\ wizard' = Idle("done")
      /\ UNCHANGED <<acct, included, outside, cache, half, issued>>
  BY DEF WatchMerge, ledger, bounds
<1>2. PICK n \in Nat : wizard.steps = <<MergeTx(n)>>
  BY <1>1 DEF CleanupInv, Guides
<1>3. PICK i \in included : i.tx = MergeTx(n)
  BY <1>1, <1>2 DEF Seen
<1>4. DestExists => ~acct.open
  BY <1>3 DEF CleanupInv, Took, IsMerge
<1>5. Guides(Showing("done", NoPlan, <<>>, Gone, "no"))
  BY <1>4, GuidesIdle
<1>6. Guides(wizard')
  BY <1>1, <1>5 DEF Idle
<1> QED
  BY <1>1, <1>6, WizardKeeps

LEMMA StartOverKeeps == CleanupInv /\ (Back \/ Reload) => CleanupInv'
<1> SUFFICES ASSUME CleanupInv, Back \/ Reload PROVE CleanupInv'
  OBVIOUS
<1>1. wizard' = Idle("input") /\ UNCHANGED <<acct, included, outside, cache, half, issued>>
  BY DEF Back, Reload, ledger
<1>2. Guides(Showing("input", NoPlan, <<>>, Gone, "no"))
  BY GuidesIdle
<1>3. Guides(wizard')
  BY <1>1, <1>2 DEF Idle
<1> QED
  BY <1>1, <1>3, WizardKeeps

LEMMA WaitingKeeps == CleanupInv /\ (WatchTimeout \/ KeepWaiting) => CleanupInv'
<1> SUFFICES ASSUME CleanupInv, WatchTimeout \/ KeepWaiting PROVE CleanupInv'
  OBVIOUS
<1>1. PICK u : u = wizard
  OBVIOUS
<1>2. PICK x : wizard' = [u EXCEPT !.watching = x]
  BY <1>1 DEF WatchTimeout, KeepWaiting
<1>3. UNCHANGED <<acct, included, outside, cache, half, issued>> /\ Guides(u)
  BY <1>1 DEF WatchTimeout, KeepWaiting, ledger, bounds, CleanupInv
<1>4. PICK g, p, s, v, i : g = u.stage /\ p = u.plan /\ s = u.steps /\ v = u.from /\ i = u.index
  OBVIOUS
<1>5. PICK w : w = [u EXCEPT !.watching = x]
  OBVIOUS
<1>6. \E t : u = [stage |-> g, plan |-> p, steps |-> s, from |-> v, index |-> i, watching |-> t]
  BY <1>3, <1>4 DEF Guides
<1>7. w = [stage |-> g, plan |-> p, steps |-> s, from |-> v, index |-> i, watching |-> x]
  BY <1>5, <1>6
<1>8. /\ w = [stage |-> w.stage, plan |-> w.plan, steps |-> w.steps, from |-> w.from, index |-> w.index, watching |-> w.watching]
      /\ w.stage = u.stage /\ w.steps = u.steps /\ w.from = u.from /\ w.index = u.index
  BY <1>4, <1>7
<1>9. Guides(w)
  BY <1>3, <1>8 DEF Guides
<1>10. Guides(wizard')
  BY <1>2, <1>5, <1>9
<1> QED
  BY <1>3, <1>10, WizardKeeps

LEMMA CleanupNextKeeps == CleanupInv /\ CleanupNext => CleanupInv'
<1> SUFFICES ASSUME CleanupInv, CleanupNext PROVE CleanupInv'
  OBVIOUS
<1>1. ASSUME Tick \/ Refused \/ Inspect PROVE CleanupInv'
  <2>1. UNCHANGED <<acct, included, outside, cache, half, wizard, issued>>
    BY <1>1 DEF Tick, Refused, Inspect, ledger, bounds
  <2>2. Guides(wizard')
    BY <2>1 DEF CleanupInv
  <2> QED
    BY <2>1, <2>2, WizardKeeps
<1> QED
  BY <1>1, LedgerKeeps, ReadAccountKeeps, ReadOffersKeeps, AnswersKeep, MergedKeeps, ProceedKeeps, ConfirmPlanKeeps,
     WatchCleanupKeeps, WatchMergeKeeps, StartOverKeeps, WaitingKeeps DEF CleanupNext

LEMMA CleanupStarts == CleanupInit => CleanupInv
<1> SUFFICES ASSUME CleanupInit PROVE CleanupInv
  OBVIOUS
<1>1. /\ IsAccount(acct) /\ outside = 0 /\ included = {} /\ issued = {} /\ cache = <<>> /\ half = <<>>
      /\ wizard = Showing("input", NoPlan, <<>>, Gone, "no")
  BY CleanupAssumption DEF CleanupInit, Idle
<1>2. Guides(Showing("input", NoPlan, <<>>, Gone, "no"))
  BY GuidesIdle
<1> QED
  BY <1>1, <1>2 DEF CleanupInv

LEMMA PlanMatches == ASSUME CleanupInv PROVE PlanMatchesSteps
<1> SUFFICES ASSUME acct.open, CanSelfFund(acct)
             PROVE  /\ CleanupPlan(acct).estimated = Len(CleanupSteps(acct)) + 1
                    /\ Spendable(acct) >= BaseFee * Len(CollectCleanupOps(acct))
  BY DEF PlanMatchesSteps
<1>1. PICK a : a = acct
  OBVIOUS
<1>2. PICK n, m, s : n = CleanupOps(a) /\ m = Len(CleanupSteps(a)) /\ s = Spendable(a)
  OBVIOUS
<1>3. IsAccount(a)
  BY <1>1 DEF CleanupInv
<1>4. n \in Nat /\ Len(CollectCleanupOps(a)) = n /\ (Subentries(a) = 0 => n = 0) /\ m = Chunks(n) /\ m \in Nat
  BY <1>2, <1>3, CollectTyped, StepsCut
<1>5. CleanupPlan(a).estimated = m + 1
  <2>1. Max({1, Chunks(n) + 1}) = m + 1
    BY <1>4, MaxTwo
  <2>2. n = 0 => m = 0
    BY <1>4, ChunksCount
  <2>3. CleanupPlan(a).estimated = IF Subentries(a) = 0 THEN 1 ELSE Max({1, Chunks(n) + 1})
    BY <1>2 DEF CleanupPlan
  <2> QED
    BY <1>4, <2>1, <2>2, <2>3
<1>6. s >= BaseFee * n
  <2>1. PICK b : b = BaseFee
    OBVIOUS
  <2>2. b \in Nat
    BY <2>1, CleanupAssumption
  <2>3. PICK q : q = Max({1, n})
    OBVIOUS
  <2>4. q \in Nat /\ n <= q
    BY <1>4, <2>3, MaxTwo
  <2>5. s >= q * b
    BY <1>1, <1>2, <2>1, <2>3 DEF CanSelfFund, RequiredFee
  <2>6. n * b <= q * b
    BY <1>4, <2>2, <2>4, TimesMonotone
  <2>7. PICK e \in Int : e = n * b
    BY <1>4, <2>2
  <2>8. PICK f \in Int : f = q * b
    BY <2>2, <2>4
  <2>9. s \in Int
    <3>1. PICK d \in Int : d = (2 + Subentries(a)) * BaseReserve
      <4>1. PICK j, r \in Nat : j = Subentries(a) /\ r = BaseReserve
        BY <1>3, CollectTyped, CleanupAssumption
      <4> QED
        BY <4>1
    <3>2. a.xlm - d \in Int
      BY <1>3, <3>1 DEF IsAccount
    <3> QED
      BY <1>2, <3>1, <3>2, MaxTwo DEF Spendable
  <2>10. b * n = n * b
    BY <1>4, <2>2
  <2>11. s >= e
    BY <2>5, <2>6, <2>7, <2>8, <2>9
  <2> QED
    BY <2>1, <2>7, <2>10, <2>11
<1> QED
  BY <1>1, <1>2, <1>4, <1>5, <1>6

LEMMA CleanupHolds == CleanupInv => CleanupSound
<1> SUFFICES ASSUME CleanupInv PROVE CleanupSound
  OBVIOUS
<1>1. DoneMeansClosed
  BY DEF CleanupInv, Guides, DoneMeansClosed
<1>2. ASSUME Quiet
      PROVE  /\ \A i \in included : i.ok
             /\ wizard.stage = "cleanup" /\ acct.open /\ Resume(wizard.from, wizard.steps, Confirmed, acct) = "completed"
                  => Subentries(acct) = 0
  <2>1. \A i \in included : i.ok
    BY <1>2 DEF CleanupInv, Took
  <2>2. ASSUME wizard.stage = "cleanup", acct.open, Resume(wizard.from, wizard.steps, Confirmed, acct) = "completed"
        PROVE  Subentries(acct) = 0
    <3>1. PICK v, s : v = wizard.from /\ s = wizard.steps
      OBVIOUS
    <3>2. s # <<>> /\ Read(v) /\ v.open /\ s = CleanupSteps(v)
      BY <2>2, <3>1 DEF CleanupInv, Guides
    <3>3. IsAccount(v) /\ Tracked(v)
      BY <1>2, <3>2 DEF Read
    <3>4. s \in Seq(CleanTx)
      BY <3>2, <3>3, StepsTyped
    <3>5. Len(s) \in Nat /\ Len(s) > 0
      BY <3>2, <3>4
    <3>6. Confirmed = Len(s)
      BY <2>2, <3>1 DEF Resume
    <3>7. SeenTo(s, Len(s))
      <4> DEFINE N == Len(s)
                 S == {k \in 1..N : Seen(s[k])}
      <4>1. IsFiniteSet(1..N) /\ Cardinality(1..N) = N
        <5>1. 1 \in Int /\ N \in Int /\ 1 <= N
          BY <3>5
        <5>2. IsFiniteSet(1..N) /\ Cardinality(1..N) = IF 1 > N THEN 0 ELSE N - 1 + 1
          BY <5>1, FS_Interval
        <5> QED
          BY <5>1, <5>2
      <4>2. S \subseteq 1..N /\ Cardinality(S) = N
        BY <3>1, <3>6 DEF Confirmed
      <4>3. S = 1..N
        BY <4>1, <4>2, FS_Subset
      <4> QED
        BY <4>3 DEF SeenTo
    <3> QED
      BY <2>2, <3>2, <3>3, <3>5, <3>7 DEF Tracked
  <2> QED
    BY <2>1, <2>2
<1>3. CleanupSucceeds
  BY <1>2 DEF CleanupSucceeds, Quiet
<1> QED
  BY <1>1, <1>3, PlanMatches DEF CleanupSound

LEMMA CleanupStep == CleanupInv /\ [MCNext]_clientVars => CleanupInv'
<1> SUFFICES ASSUME CleanupInv, [MCNext]_clientVars PROVE CleanupInv'
  OBVIOUS
<1>1. CleanupNext \/ UNCHANGED cleanupVars
  BY DEF MCNext, clientVars
<1>2. ASSUME UNCHANGED cleanupVars PROVE CleanupInv'
  <2>1. UNCHANGED <<acct, included, outside, cache, half, wizard, issued>>
    BY <1>2 DEF cleanupVars
  <2>2. Guides(wizard')
    BY <2>1 DEF CleanupInv
  <2> QED
    BY <2>1, <2>2, WizardKeeps
<1> QED
  BY <1>1, <1>2, CleanupNextKeeps

\* Closing an account, for any account with any number of assets, any size of a
\* transaction, and whatever order the ledger takes what the user submits: the
\* plan counts what the builder makes and can be paid, no transaction of it
\* fails and nothing is left once all are seen while nobody else touches the
\* account, and the wizard says "done" only of an account that is closed
\* (planner.ts, builder.ts, the wizard of app/cleanup/page.tsx).
THEOREM CleanupStaysSound == MCSpec => []CleanupSound
<1>1. MCInit => CleanupInv
  BY CleanupStarts DEF MCInit
<1> QED
  BY <1>1, CleanupStep, CleanupHolds, PTL DEF MCSpec
-----------------------------------------------------------------------------
(***************************************************************************)
(* Amounts: the digits typed, and the base units of a contract.            *)
(***************************************************************************)

LEMMA TensValues ==
  Tens \in [Nat -> Nat \ {0}] /\ Tens[0] = 1 /\ \A n \in Nat : Tens[n + 1] = 10 * Tens[n]
<1> DEFINE X == Nat \ {0}
           G == [n \in Nat |-> [x \in X |-> 10 * x]]
           Eq(g) == g = [n \in Nat |-> IF n = 0 THEN 1 ELSE 10 * g[n - 1]]
<1>1. G \in [Nat -> [X -> X]] /\ 1 \in X
  OBVIOUS
<1>2. PICK h : Recurs(h, X, 1, G)
  <2> HIDE DEF G, X
  <2> QED
    BY <1>1, NatRecursion
<1>3. h \in [Nat -> X] /\ h[0] = 1 /\ \A n \in Nat : h[n + 1] = 10 * h[n]
  <2>1. \A n \in Nat, x \in X : G[n][x] = 10 * x
    OBVIOUS
  <2> HIDE DEF G, X
  <2> QED
    BY <1>2, <2>1 DEF Recurs
<1>4. Eq(h)
  <2>1. h = [n \in Nat |-> h[n]]
    BY <1>3
  <2>2. ASSUME NEW n \in Nat PROVE h[n] = IF n = 0 THEN 1 ELSE 10 * h[n - 1]
    <3>1. CASE n = 0
      BY <1>3, <3>1
    <3>2. CASE n # 0
      <4>1. n - 1 \in Nat /\ (n - 1) + 1 = n
        BY <3>2
      <4>2. h[(n - 1) + 1] = 10 * h[n - 1]
        BY <1>3, <4>1
      <4> QED
        BY <3>2, <4>1, <4>2
    <3> QED
      BY <3>1, <3>2
  <2>3. [n \in Nat |-> h[n]] = [n \in Nat |-> IF n = 0 THEN 1 ELSE 10 * h[n - 1]]
    BY <2>2
  <2> QED
    BY <2>1, <2>3
<1>5. PICK e : e = CHOOSE q : Eq(q)
  OBVIOUS
<1>6. Eq(e)
  <2> HIDE DEF Eq
  <2> QED
    BY <1>4, <1>5
<1>7. Tens = e
  BY <1>5 DEF Tens
<1>8. e[0] = 1 /\ \A n \in Nat : e[n + 1] = 10 * e[n]
  <2>1. \A n \in Nat : e[n] = IF n = 0 THEN 1 ELSE 10 * e[n - 1]
    BY <1>6, Zenon
  <2>2. \A n \in Nat : n + 1 \in Nat /\ n + 1 # 0 /\ (n + 1) - 1 = n
    OBVIOUS
  <2> QED
    BY <2>1, <2>2
<1>9. \A n \in Nat : e[n] \in X
  <2> DEFINE T == {n \in Nat : e[n] \in X}
  <2>1. 0 \in T
    BY <1>8
  <2>2. ASSUME NEW n \in Nat, n \in T PROVE n + 1 \in T
    <3>1. PICK x \in X : x = e[n]
      BY <2>2
    <3>2. e[n + 1] = 10 * x
      BY <1>8, <3>1
    <3> QED
      BY <3>2
  <2>3. \A n \in Nat : n \in T
    <3> HIDE DEF T
    <3> QED
      BY <2>1, <2>2, NatSets
  <2> QED
    BY <2>3
<1>10. e \in [Nat -> X]
  <2>1. e = [n \in Nat |-> IF n = 0 THEN 1 ELSE 10 * e[n - 1]]
    BY <1>6
  <2>2. DOMAIN e = Nat /\ e = [n \in Nat |-> e[n]]
    BY <2>1
  <2> HIDE DEF X
  <2> QED
    BY <1>9, <2>2
<1> QED
  BY <1>7, <1>8, <1>10

LEMMA TensSum == \A a, b \in Nat : Tens[a + b] = Tens[a] * Tens[b]
<1> SUFFICES ASSUME NEW a \in Nat PROVE \A b \in Nat : Tens[a + b] = Tens[a] * Tens[b]
  OBVIOUS
<1> DEFINE T == {b \in Nat : Tens[a + b] = Tens[a] * Tens[b]}
<1>1. 0 \in T
  BY TensValues
<1>2. ASSUME NEW b \in Nat, b \in T PROVE b + 1 \in T
  <2>1. PICK x, y, z \in Nat : x = Tens[a] /\ y = Tens[b] /\ z = Tens[a + b]
    <3>1. Tens[a] \in Nat /\ Tens[b] \in Nat /\ Tens[a + b] \in Nat
      BY TensValues
    <3> QED
      BY <3>1
  <2>2. Tens[b + 1] = 10 * y /\ Tens[(a + b) + 1] = 10 * z /\ z = x * y
    BY <1>2, <2>1, TensValues
  <2>3. 10 * (x * y) = x * (10 * y)
    OBVIOUS
  <2>4. a + (b + 1) = (a + b) + 1
    OBVIOUS
  <2>5. Tens[a + (b + 1)] = Tens[a] * Tens[b + 1]
    BY <2>1, <2>2, <2>3, <2>4
  <2> QED
    BY <2>5
<1>3. \A b \in Nat : b \in T
  <2> HIDE DEF T
  <2> QED
    BY <1>1, <1>2, NatSets
<1> QED
  BY <1>3

LEMMA DigitsTyped == ASSUME NEW s \in Seq(Nat) PROVE Digits(s) \in Nat
<1> DEFINE N == Len(s)
           Step(n, x) == IF n + 1 \in 1..N THEN 10 * x + s[n + 1] ELSE x
           G == [n \in Nat |-> [x \in Nat |-> Step(n, x)]]
           Eq(g) == g = [n \in 0..N |-> IF n = 0 THEN 0 ELSE 10 * g[n - 1] + s[n]]
<1>1. N \in Nat /\ \A n \in 1..N : s[n] \in Nat
  OBVIOUS
<1>2. G \in [Nat -> [Nat -> Nat]]
  <2>1. \A n \in Nat, x \in Nat : Step(n, x) \in Nat
    BY <1>1
  <2> HIDE DEF Step
  <2> QED
    BY <2>1
<1>3. PICK h : Recurs(h, Nat, 0, G)
  <2> HIDE DEF G
  <2> QED
    BY <1>2, NatRecursion
<1>4. h \in [Nat -> Nat] /\ h[0] = 0 /\ \A n \in Nat : h[n + 1] = Step(n, h[n])
  <2>1. \A n \in Nat, x \in Nat : G[n][x] = Step(n, x)
    OBVIOUS
  <2> HIDE DEF G, Step
  <2> QED
    BY <1>3, <2>1 DEF Recurs
<1> DEFINE g == [n \in 0..N |-> h[n]]
<1>5. Eq(g)
  <2>1. ASSUME NEW n \in 0..N PROVE h[n] = IF n = 0 THEN 0 ELSE 10 * g[n - 1] + s[n]
    <3>1. CASE n = 0
      BY <1>4, <3>1
    <3>2. CASE n # 0
      <4>1. n \in 1..N /\ n - 1 \in Nat /\ n - 1 \in 0..N /\ (n - 1) + 1 = n
        BY <1>1, <3>2
      <4>2. h[(n - 1) + 1] = Step(n - 1, h[n - 1])
        BY <1>4, <4>1
      <4> QED
        BY <3>2, <4>1, <4>2
    <3> QED
      BY <3>1, <3>2
  <2>2. [n \in 0..N |-> h[n]] = [n \in 0..N |-> IF n = 0 THEN 0 ELSE 10 * g[n - 1] + s[n]]
    <3> HIDE DEF g
    <3> QED
      BY <2>1
  <2> QED
    BY <2>2
<1>6. PICK e : e = CHOOSE q : Eq(q)
  OBVIOUS
<1>7. Eq(e)
  <2> HIDE DEF Eq, g
  <2> QED
    BY <1>5, <1>6
<1>8. Digits(s) = e[N]
  BY <1>6 DEF Digits
<1>9. \A n \in 0..N : e[n] = IF n = 0 THEN 0 ELSE 10 * e[n - 1] + s[n]
  BY <1>7, Zenon
<1> DEFINE T == {n \in Nat : n <= N => e[n] \in Nat}
<1>10. 0 \in T
  <2>1. 0 \in 0..N
    BY <1>1
  <2> QED
    BY <1>9, <2>1
<1>11. ASSUME NEW n \in Nat, n \in T PROVE n + 1 \in T
  <2> SUFFICES ASSUME n + 1 <= N PROVE e[n + 1] \in Nat
    OBVIOUS
  <2>1. n <= N /\ n + 1 \in 0..N /\ n + 1 # 0 /\ (n + 1) - 1 = n /\ n + 1 \in 1..N
    BY <1>1
  <2>2. e[n + 1] = 10 * e[n] + s[n + 1]
    BY <1>9, <2>1
  <2>3. PICK x, y \in Nat : x = e[n] /\ y = s[n + 1]
    BY <1>1, <1>11, <2>1
  <2>4. e[n + 1] = 10 * x + y
    BY <2>2, <2>3
  <2>5. 10 * x + y \in Nat
    OBVIOUS
  <2> QED
    BY <2>4, <2>5
<1>12. N \in T
  <2>1. \A n \in Nat : n \in T
    <3> HIDE DEF T
    <3> QED
      BY <1>10, <1>11, NatSets
  <2> QED
    BY <1>1, <2>1
<1> QED
  BY <1>1, <1>8, <1>12

LEMMA TimesOrder ==
  ASSUME NEW a \in Nat, NEW b \in Nat, NEW c \in Nat \ {0}
  PROVE  a <= b <=> c * a <= c * b
<1>1. ASSUME a <= b PROVE c * a <= c * b
  <2>1. PICK d \in Nat : b = a + d
    <3>1. b - a \in Nat /\ b = a + (b - a)
      BY <1>1
    <3> QED
      BY <3>1
  <2>2. c * b = c * a + c * d
    BY <2>1
  <2>3. c * d \in Nat /\ c * a \in Nat /\ c * b \in Nat
    BY <2>1
  <2>4. PICK x, y, z \in Nat : x = c * a /\ y = c * b /\ z = c * d
    BY <2>3
  <2>5. y = x + z
    BY <2>2, <2>4
  <2>6. x <= y
    BY <2>5
  <2> QED
    BY <2>4, <2>6
<1>2. ASSUME ~(a <= b) PROVE ~(c * a <= c * b)
  <2>1. PICK d \in Nat : a = b + 1 + d
    <3>1. a - b - 1 \in Nat /\ a = b + 1 + (a - b - 1)
      BY <1>2
    <3> QED
      BY <3>1
  <2>2. c * a = c * b + c + c * d
    BY <2>1
  <2>3. c * d \in Nat /\ c * a \in Nat /\ c * b \in Nat
    BY <2>1
  <2>4. PICK x, y, z \in Nat : x = c * a /\ y = c * b /\ z = c * d
    BY <2>3
  <2>5. x = y + c + z
    BY <2>2, <2>4
  <2>6. ~(x <= y)
    BY <2>5
  <2> QED
    BY <2>4, <2>6
<1> QED
  BY <1>1, <1>2

\* The conversion keeps the amount as it was typed, if it has no more digits
\* than the token.
LEMMA WithinExact ==
  ASSUME NEW x \in Amount, Len(x.frac) <= Decimals, NEW amount \in Nat
  PROVE  xlmToStroops(x) \in Nat /\ (Within(amount, x) <=> amount <= xlmToStroops(x))
<1>1. x.whole \in Nat /\ x.frac \in Seq(0..9) /\ Len(x.frac) \in Nat /\ Decimals \in Nat
  BY WebPolicyAssumption DEF Amount
<1>2. PICK s, D, L, E : s = x.frac /\ D = Decimals /\ L = Len(s) /\ E = D - L
  OBVIOUS
<1>3. s \in Seq(0..9) /\ D \in Nat /\ L \in Nat /\ E \in Nat /\ D = L + E /\ L <= D
  BY <1>1, <1>2
<1>4. PICK w \in Nat, d \in Nat : w = x.whole /\ d = Digits(s)
  <2>1. s \in Seq(Nat)
    BY <1>3
  <2> QED
    BY <1>1, <2>1, DigitsTyped
<1>5. PICK tl, te \in Nat \ {0} : tl = Tens[L] /\ te = Tens[E]
  <2>1. Tens[L] \in Nat \ {0} /\ Tens[E] \in Nat \ {0}
    BY <1>3, TensValues
  <2> QED
    BY <2>1
<1>6. Tens[D] = tl * te
  BY <1>3, <1>5, TensSum
<1>7. xlmToStroops(x) = w * (tl * te) + d * te
  <2>1. (IF Len(x.frac) < Decimals THEN Len(x.frac) ELSE Decimals) = L
    BY <1>2, <1>3
  <2>2. SubSeq(s, 1, L) = s
    BY <1>2, <1>3, SubSeqFull
  <2>3. PICK kept : kept = SubSeq(x.frac, 1, IF Len(x.frac) < Decimals THEN Len(x.frac) ELSE Decimals)
    OBVIOUS
  <2>4. kept = s
    BY <1>2, <2>1, <2>2, <2>3
  <2>5. xlmToStroops(x) = x.whole * Tens[Decimals] + Digits(kept) * Tens[Decimals - Len(kept)]
    BY <2>3, Zenon DEF xlmToStroops
  <2> QED
    BY <1>2, <1>4, <1>5, <1>6, <2>4, <2>5
<1>8. PICK b \in Nat : b = w * (tl * te) + d * te
  <2>1. PICK p \in Nat : p = tl * te
    OBVIOUS
  <2>2. w * p \in Nat /\ d * te \in Nat
    OBVIOUS
  <2> QED
    BY <2>1, <2>2
<1>9. Within(amount, x) <=> amount * tl <= (w * tl + d) * (tl * te)
  BY <1>2, <1>4, <1>5, <1>6 DEF Within
<1>10. (w * tl + d) * (tl * te) = tl * b
  <2>1. (w * tl + d) * (tl * te) = tl * (w * (tl * te) + d * te)
    OBVIOUS
  <2> QED
    BY <1>8, <2>1
<1>11. amount * tl = tl * amount
  OBVIOUS
<1>12. amount <= b <=> tl * amount <= tl * b
  BY TimesOrder
<1> QED
  BY <1>7, <1>8, <1>9, <1>10, <1>11, <1>12

-----------------------------------------------------------------------------
(***************************************************************************)
(* The policy builder.                                                     *)
(***************************************************************************)
ValidForm(form) == form \in Forms /\ ValidateDefinition(BuildDefinition(form))

LEMMA SpendingExact ==
  ASSUME NEW form, ValidForm(form), form.type = "spending_limit", NEW token \in TokenIds, NEW amount \in Probes
  PROVE  Enforced(GeneratePolicy(BuildDefinition(form)).args, token, amount) <=> Promised(Claimed(form), token, amount)
<1>1. PICK d : d = BuildDefinition(form)
  OBVIOUS
<1>2. /\ d.type = "spending_limit" /\ d.daily = form.daily /\ d.perTx = form.perTx /\ d.allowed = form.allowed
      /\ d.caps = IF form.capToken # NoToken /\ form.cap # Blank
                  THEN <<[token |-> form.capToken, amount |-> xlmToBaseUnits(form.cap)]>> ELSE <<>>
  BY <1>1 DEF BuildDefinition
<1>3. PICK args : args = GeneratePolicy(d).args
  OBVIOUS
<1>4. /\ args.limit = xlmToStroops(IF d.daily # Blank THEN d.daily ELSE d.perTx)
      /\ args.caps = d.caps /\ args.allowed = form.allowed
  BY <1>2, <1>3 DEF GeneratePolicy, DeriveSpendingConstructor
<1>5. SpendingLimitsSchema(d) /\ SafetyRulesSchema(d)
  BY <1>1, <1>2 DEF ValidForm, ValidateDefinition
<1>6. /\ amount \in Nat /\ token # NoToken
      /\ {form.daily, form.perTx, form.cap} \subseteq Amount \cup {Blank}
  BY WebPolicyAssumption DEF ValidForm
<1>7. amount <= args.limit <=> /\ form.daily # Blank => Within(amount, form.daily)
                               /\ form.daily = Blank => Within(amount, form.perTx)
  <2>1. PICK x : x = IF d.daily # Blank THEN d.daily ELSE d.perTx
    OBVIOUS
  <2>2. x \in Amount /\ Len(x.frac) <= Decimals
    BY <1>2, <1>5, <1>6, <2>1 DEF SpendingLimitsSchema, PositiveXlmAmount
  <2>3. amount <= args.limit <=> Within(amount, x)
    BY <1>4, <1>6, <2>1, <2>2, WithinExact
  <2> QED
    BY <1>2, <2>1, <2>3
<1>8. (\A i \in DOMAIN args.caps : args.caps[i].token = token => amount <= args.caps[i].amount)
        <=> (token = form.capToken /\ form.cap # Blank => Within(amount, form.cap))
  <2>1. CASE form.capToken # NoToken /\ form.cap # Blank
    <3>1. PICK c : c = [token |-> form.capToken, amount |-> xlmToBaseUnits(form.cap)]
      OBVIOUS
    <3>2. args.caps = <<c>> /\ c.token = form.capToken /\ c.amount = xlmToBaseUnits(form.cap)
      BY <1>2, <1>4, <2>1, <3>1
    <3>3. DOMAIN args.caps = {1} /\ args.caps[1] = c
      BY <3>2
    <3>4. c.amount >= 1
      BY <1>4, <1>5, <3>3 DEF SafetyRulesSchema
    <3>5. form.cap \in Amount /\ Len(form.cap.frac) <= Decimals
      BY <1>6, <2>1, <3>2, <3>4 DEF xlmToBaseUnits
    <3>6. amount <= c.amount <=> Within(amount, form.cap)
      BY <1>6, <3>2, <3>5, WithinExact DEF xlmToBaseUnits
    <3> QED
      BY <2>1, <3>2, <3>3, <3>6
  <2>2. CASE ~(form.capToken # NoToken /\ form.cap # Blank)
    <3>1. args.caps = <<>>
      BY <1>2, <1>4, <2>2
    <3>2. DOMAIN args.caps = {}
      BY <3>1
    <3> QED
      BY <1>6, <2>2, <3>2
  <2> QED
    BY <2>1, <2>2
<1>9. /\ Claimed(form).capToken = form.capToken /\ Claimed(form).cap = form.cap
      /\ Claimed(form).allowed = form.allowed /\ Claimed(form).daily = form.daily
      /\ Claimed(form).perTx = IF form.daily = Blank THEN form.perTx ELSE Blank
  BY DEF Claimed
<1>10. form.daily = Blank => form.perTx # Blank
  BY <1>2, <1>5 DEF SpendingLimitsSchema
<1>11. Enforced(args, token, amount) <=> Promised(Claimed(form), token, amount)
  BY <1>4, <1>7, <1>8, <1>9, <1>10 DEF Enforced, Promised
<1> QED
  BY <1>1, <1>3, <1>11

\* What all the typed limits allow, the claimed ones allow.
LEMMA PromisedClaimed ==
  ASSUME NEW form, NEW token, NEW amount, Promised(form, token, amount)
  PROVE  Promised(Claimed(form), token, amount)
<1>1. PICK f : f = Claimed(form)
  OBVIOUS
<1>2. /\ f.capToken = form.capToken /\ f.cap = form.cap /\ f.allowed = form.allowed
      /\ f.daily = form.daily /\ f.perTx \in {form.perTx, Blank}
  BY <1>1 DEF Claimed
<1> QED
  BY <1>1, <1>2 DEF Promised

Generated(form) == GeneratePolicy(BuildDefinition(form))
InstanceOf(form) == [form |-> form, definition |-> Generated(form).definition, args |-> Generated(form).args]
Spending(form) == ValidForm(form) /\ form.type = "spending_limit"
Deployments == {InstanceOf(form) : form \in {f \in Forms : Spending(f)}}

StageInv ==
  /\ stage = [name |-> stage.name, type |-> stage.type, form |-> stage.form, policy |-> stage.policy]
  /\ submitted # "none" => stage.name = "configure" /\ stage.form \in Forms
  /\ submitted = "generate" => ValidForm(stage.form)
  /\ stage.name = "review" => ValidForm(stage.form) /\ stage.policy = Generated(stage.form)

\* A run carries the policy of its form, and its contract once there is one.
RunOf(run) ==
  /\ run = [card |-> run.card, step |-> run.step, policy |-> run.policy, form |-> run.form, contract |-> run.contract]
  /\ ValidForm(run.form) /\ run.policy = Generated(run.form)
  /\ \/ run.step = "simulate" /\ run.contract = 0
     \/ run.step = "deploy" /\ run.contract = 0 /\ Spending(run.form)
     \/ /\ run.step \in {"attach", "record"} /\ Spending(run.form)
        /\ run.contract \in DOMAIN instances /\ instances[run.contract] = InstanceOf(run.form)
        /\ run.step = "record" => run.contract \in attachedPolicies

\* No run will attach the contract.
Free(c) == c \in DOMAIN instances /\ \A run \in deploys : run.contract # c

\* The card tells the truth of a contract.
CardOf(view) ==
  /\ view = [name |-> view.name, contract |-> view.contract]
  /\ view.name = "done" => Free(view.contract)
  /\ view.name = "done" => view.contract \in attachedPolicies /\ \A x \in detaches : x.contract # view.contract

RunInv ==
  /\ instances \in Seq(Deployments) /\ attachedPolicies \subseteq DOMAIN instances
  /\ \A run \in deploys : RunOf(run)
  /\ \A r1, r2 \in deploys : r1.contract = r2.contract /\ r1.contract # 0 => r1 = r2
  /\ \A x \in detaches : Free(x.contract)
  /\ CardOf(deploy)
  /\ \A c \in DOMAIN records : c \in DOMAIN instances /\ records[c] = instances[c].definition

PolicyInv == StageInv /\ RunInv

LEMMA FrameStage == StageInv /\ UNCHANGED <<stage, submitted>> => StageInv'
  BY DEF StageInv

LEMMA FrameRuns == RunInv /\ UNCHANGED <<deploys, detaches, instances, attachedPolicies, deploy, records>> => RunInv'
  BY DEF RunInv, RunOf, CardOf, Free

LEMMA InstanceHolds ==
  ASSUME RunInv, NEW c \in DOMAIN instances
  PROVE  \E form : Spending(form) /\ instances[c] = InstanceOf(form)
<1>1. instances[c] \in Deployments
  BY DEF RunInv
<1> QED
  BY <1>1 DEF Deployments

LEMMA ReviewedHolds == PolicyInv => PolicyAsReviewed
<1> SUFFICES ASSUME PolicyInv PROVE PolicyAsReviewed
  OBVIOUS
<1>1. ASSUME NEW c \in attachedPolicies, NEW token \in TokenIds, NEW amount \in Probes
      PROVE  /\ Promised(instances[c].form, token, amount) => Enforced(instances[c].args, token, amount)
             /\ Enforced(instances[c].args, token, amount) => Promised(Claimed(instances[c].form), token, amount)
  <2>1. PICK form : Spending(form) /\ instances[c] = InstanceOf(form)
    BY InstanceHolds DEF PolicyInv, RunInv
  <2>2. instances[c].form = form /\ instances[c].args = GeneratePolicy(BuildDefinition(form)).args
    BY <2>1 DEF InstanceOf, Generated
  <2>3. Enforced(GeneratePolicy(BuildDefinition(form)).args, token, amount) <=> Promised(Claimed(form), token, amount)
    BY <2>1, SpendingExact DEF Spending
  <2>4. Promised(form, token, amount) => Promised(Claimed(form), token, amount)
    BY PromisedClaimed
  <2> QED
    BY <2>2, <2>3, <2>4
<1> QED
  BY <1>1 DEF PolicyInv, RunInv, CardOf, PolicyAsReviewed

\* A deployment is of a spending policy: the deployer holds no other code.
LEMMA SpendingKind ==
  ASSUME NEW form, ValidForm(form), Generated(form).args.kind = "spending"
  PROVE  Spending(form)
<1>1. PICK d : d = BuildDefinition(form)
  OBVIOUS
<1>2. d.type = form.type
  BY <1>1 DEF BuildDefinition
<1>3. CASE d.type = "spending_limit"
  BY <1>2, <1>3 DEF Spending
<1>4. CASE d.type # "spending_limit"
  <2>1. GeneratePolicy(d).args.kind \in {"verified", "none"}
    BY <1>4 DEF GeneratePolicy, DeriveVerifiedRecipientConstructor
  <2> QED
    BY <1>1, <2>1 DEF Generated
<1> QED
  BY <1>3, <1>4

LEMMA StageFields ==
  ASSUME NEW name, NEW type, NEW form, NEW policy, stage' = StageAt(name, type, form, policy)
  PROVE  /\ stage' = [name |-> (stage.name)', type |-> (stage.type)', form |-> (stage.form)', policy |-> (stage.policy)']
         /\ (stage.name)' = name /\ (stage.form)' = form /\ (stage.policy)' = policy
<1>1. PICK s : s = stage'
  OBVIOUS
<1>2. s = [name |-> name, type |-> type, form |-> form, policy |-> policy]
  BY <1>1 DEF StageAt
<1>3. s = [name |-> s.name, type |-> s.type, form |-> s.form, policy |-> s.policy] /\ s.name = name /\ s.form = form /\ s.policy = policy
  BY <1>2
<1> QED
  BY <1>1, <1>3

LEMMA FormRuns ==
  ASSUME RunInv, UNCHANGED <<deploys, detaches, instances, attachedPolicies, records>>, deploy' = deploy \/ deploy' = DeployIdle
  PROVE  RunInv'
<1>1. CASE deploy' = deploy
  BY <1>1, FrameRuns
<1>2. CASE deploy' = DeployIdle
  <2>1. deploy' = [name |-> (deploy.name)', contract |-> (deploy.contract)'] /\ (deploy.name)' = "idle"
    BY <1>2 DEF DeployIdle
  <2> QED
    BY <2>1 DEF RunInv, RunOf, CardOf, Free
<1> QED
  BY <1>1, <1>2

LEMMA FormSteps ==
  ASSUME PolicyInv,
         \/ LoadTemplates \/ BackToPick \/ ValidateAnswers \/ GenerateAnswers \/ LeaveReview \/ ListPolicySigners
         \/ \E form \in Forms : PickTemplate(form) \/ SubmitForm(form)
  PROVE  PolicyInv'
<1> USE DEF formVars, runVars, chainVars
<1>1. StageInv /\ RunInv
  BY DEF PolicyInv
<1>2. CASE LoadTemplates
  BY <1>1, <1>2, FrameStage, FormRuns DEF LoadTemplates, PolicyInv
<1>3. CASE ListPolicySigners
  BY <1>1, <1>3, FrameStage, FormRuns DEF ListPolicySigners, PolicyInv
<1>4. CASE BackToPick \/ LeaveReview
  <2>1. stage' = Pick /\ submitted' = "none" /\ RunInv'
    <3>1. CASE BackToPick
      BY <1>1, <3>1, FormRuns DEF BackToPick
    <3>2. CASE LeaveReview
      <4>1. submitted = "none"
        BY <1>1, <3>2 DEF LeaveReview, StageInv
      <4> QED
        BY <1>1, <3>2, <4>1, FormRuns DEF LeaveReview
    <3> QED
      BY <1>4, <3>1, <3>2
  <2>2. StageInv'
    BY <2>1, StageFields DEF Pick, StageInv
  <2> QED
    BY <2>1, <2>2 DEF PolicyInv
<1>5. CASE \E form \in Forms : PickTemplate(form)
  <2>1. PICK form \in Forms : PickTemplate(form)
    BY <1>5
  <2>2. stage' = StageAt("configure", form.type, Pick.form, NoPolicy) /\ submitted' = "none" /\ RunInv'
    BY <1>1, <2>1, FormRuns DEF PickTemplate, StageInv
  <2>3. StageInv'
    BY <2>2, StageFields DEF StageInv
  <2> QED
    BY <2>2, <2>3 DEF PolicyInv
<1>6. CASE \E form \in Forms : SubmitForm(form)
  <2>1. PICK form \in Forms : SubmitForm(form)
    BY <1>6
  <2>2. stage' = StageAt("configure", stage.type, form, stage.policy) /\ submitted' = "validate" /\ RunInv'
    BY <1>1, <2>1, FormRuns DEF SubmitForm
  <2>3. StageInv'
    BY <2>2, StageFields DEF StageInv
  <2> QED
    BY <2>2, <2>3 DEF PolicyInv
<1>7. CASE ValidateAnswers
  <2>1. /\ stage' = stage /\ submitted = "validate" /\ RunInv'
        /\ submitted' = "none" \/ (submitted' = "generate" /\ ValidateDefinition(BuildDefinition(stage.form)))
    BY <1>1, <1>7, FormRuns DEF ValidateAnswers
  <2>2. StageInv'
    BY <1>1, <2>1 DEF StageInv, ValidForm
  <2> QED
    BY <2>1, <2>2 DEF PolicyInv
<1>8. CASE GenerateAnswers
  <2>1. submitted = "generate" /\ submitted' = "none" /\ ValidForm(stage.form) /\ RunInv'
    <3>1. submitted = "generate" /\ submitted' = "none" /\ (deploy' = deploy \/ deploy' = DeployIdle)
          /\ UNCHANGED <<deploys, detaches, instances, attachedPolicies, records>>
      BY <1>8 DEF GenerateAnswers
    <3> QED
      BY <1>1, <3>1, FormRuns DEF StageInv
  <2>2. stage' = StageAt("review", stage.type, stage.form, Generated(stage.form)) \/ stage' = stage
    BY <1>8 DEF GenerateAnswers, Generated
  <2>3. ASSUME stage' = StageAt("review", stage.type, stage.form, Generated(stage.form)) PROVE StageInv'
    <3>1. PICK t, f, q : t = stage.type /\ f = stage.form /\ q = Generated(f)
      OBVIOUS
    <3>2. stage' = StageAt("review", t, f, q)
      BY <2>3, <3>1
    <3>3. /\ stage' = [name |-> (stage.name)', type |-> (stage.type)', form |-> (stage.form)', policy |-> (stage.policy)']
          /\ (stage.form)' = f /\ (stage.policy)' = q
      BY <3>2, StageFields
    <3>4. ValidForm(f)
      BY <2>1, <3>1
    <3>5. submitted' = "none"
      BY <2>1
    <3>6. ValidForm((stage.form)')
      BY <3>3, <3>4
    <3>7. (stage.policy)' = Generated((stage.form)')
      BY <3>1, <3>3
    <3>8. (ValidForm(stage.form))' /\ (stage.policy = Generated(stage.form))'
      BY <3>6, <3>7 DEF ValidForm, Generated
    <3> QED
      BY <3>3, <3>5, <3>8 DEF StageInv
  <2>4. ASSUME stage' = stage PROVE StageInv'
    <3>2. submitted' = "none"
      BY <2>1
    <3> QED
      BY <1>1, <2>4, <3>2 DEF StageInv
  <2> QED
    BY <2>1, <2>2, <2>3, <2>4 DEF PolicyInv
<1> QED
  BY <1>2, <1>3, <1>4, <1>5, <1>6, <1>7, <1>8

\* What the chain holds of a contract stays, and contracts are only added.
Grown == instances' = instances \/ \E i \in Deployments : instances' = Append(instances, i)

LEMMA GrownKeeps ==
  ASSUME instances \in Seq(Deployments), Grown
  PROVE  /\ instances' \in Seq(Deployments) /\ DOMAIN instances \subseteq DOMAIN instances'
         /\ \A c \in DOMAIN instances : instances'[c] = instances[c]
<1>1. CASE instances' = instances
  BY <1>1
<1>2. CASE \E i \in Deployments : instances' = Append(instances, i)
  <2> HIDE DEF Deployments
  <2>1. PICK i \in Deployments : instances' = Append(instances, i)
    BY <1>2
  <2> QED
    BY <2>1
<1> QED
  BY <1>1, <1>2 DEF Grown

LEMMA RunKept ==
  ASSUME RunInv, Grown, NEW r \in deploys, r.step = "record" => r.contract \in attachedPolicies'
  PROVE  RunOf(r)'
<1>1. DOMAIN instances \subseteq DOMAIN instances' /\ \A c \in DOMAIN instances : instances'[c] = instances[c]
  BY GrownKeeps DEF RunInv
<1>2. RunOf(r)
  BY DEF RunInv
<1> QED
  BY <1>1, <1>2 DEF RunOf

LEMMA FreeKept ==
  ASSUME RunInv, Grown, NEW c, Free(c), \A r \in deploys' : r \in deploys \/ r.contract # c
  PROVE  Free(c)'
<1>1. DOMAIN instances \subseteq DOMAIN instances'
  BY GrownKeeps DEF RunInv
<1> QED
  BY <1>1 DEF Free

LEMMA CardKept ==
  ASSUME RunInv, Grown, deploy' = deploy,
         deploy.name = "done" => \A r \in deploys' : r \in deploys \/ r.contract # deploy.contract,
         deploy.name = "done" => deploy.contract \in attachedPolicies' /\ \A x \in detaches' : x.contract # deploy.contract
  PROVE  CardOf(deploy)'
<1>1. CardOf(deploy)
  BY DEF RunInv
<1>2. deploy.name = "done" => Free(deploy.contract)'
  BY <1>1, FreeKept DEF CardOf
<1>3. PICK view : view = deploy
  OBVIOUS
<1>4. CardOf(view)'
  BY <1>1, <1>2, <1>3 DEF CardOf
<1> QED
  BY <1>3, <1>4

LEMMA RecordsKept ==
  ASSUME RunInv, Grown, records' = records
  PROVE  (\A c \in DOMAIN records : c \in DOMAIN instances /\ records[c] = instances[c].definition)'
BY GrownKeeps DEF RunInv

\* A card that does not say "attached" claims nothing of a contract.
LEMMA CardBusy ==
  ASSUME NEW name, name # "done", NEW c, deploy' = [name |-> name, contract |-> c]
  PROVE  CardOf(deploy)'
<1>1. PICK view : view = [name |-> name, contract |-> c]
  OBVIOUS
<1>2. view = [name |-> view.name, contract |-> view.contract] /\ view.name = name
  BY <1>1
<1>3. CardOf(view)'
  BY <1>2 DEF CardOf
<1> QED
  BY <1>1, <1>3

LEMMA Keeping ==
  ASSUME RunInv, Grown,
         (attachedPolicies \subseteq DOMAIN instances)',
         \A run \in deploys' : RunOf(run)',
         (\A r1, r2 \in deploys : r1.contract = r2.contract /\ r1.contract # 0 => r1 = r2)',
         (\A x \in detaches : Free(x.contract))', CardOf(deploy)',
         (\A c \in DOMAIN records : c \in DOMAIN instances /\ records[c] = instances[c].definition)'
  PROVE  RunInv'
<1>1. (instances \in Seq(Deployments))'
  BY GrownKeeps DEF RunInv, Deployments, InstanceOf, Generated
<1> QED
  BY <1>1 DEF RunInv

LEMMA RunDeployKeeps ==
  ASSUME PolicyInv, RunDeploy PROVE RunInv'
<1>1. RunInv /\ StageInv
  BY DEF PolicyInv
<1>2. PICK run : run = [card |-> cards, step |-> "simulate", policy |-> stage.policy, form |-> stage.form, contract |-> 0]
  OBVIOUS
<1>3. /\ deploys' = deploys \cup {run} /\ deploy' = [name |-> "simulating", contract |-> 0] /\ stage.name = "review"
      /\ UNCHANGED <<detaches, instances, attachedPolicies, records>>
  BY <1>2 DEF RunDeploy, chainVars
<1>4. /\ run = [card |-> run.card, step |-> run.step, policy |-> run.policy, form |-> run.form, contract |-> run.contract]
      /\ run.step = "simulate" /\ run.contract = 0 /\ run.form = stage.form /\ run.policy = stage.policy
  BY <1>2
<1>5. RunOf(run)'
  <2>1. ValidForm(run.form) /\ run.policy = Generated(run.form)
    BY <1>1, <1>3, <1>4 DEF StageInv
  <2> QED
    BY <1>4, <2>1 DEF RunOf
<1>6. Grown
  BY <1>3 DEF Grown
<1>7. \A r \in deploys' : RunOf(r)'
  <2>1. \A r \in deploys : r.step = "record" => r.contract \in attachedPolicies'
    BY <1>1, <1>3 DEF RunInv, RunOf
  <2>2. \A r \in deploys : RunOf(r)'
    BY <1>1, <1>6, <2>1, RunKept
  <2> QED
    BY <1>3, <1>5, <2>2
<1>8. (\A r1, r2 \in deploys : r1.contract = r2.contract /\ r1.contract # 0 => r1 = r2)'
  BY <1>1, <1>3, <1>4 DEF RunInv
<1>9. (\A x \in detaches : Free(x.contract))'
  <2>1. \A c : Free(c) => c # 0
    BY <1>1 DEF Free, RunInv
  <2>2. \A x \in detaches : Free(x.contract) /\ \A r \in deploys' : r \in deploys \/ r.contract # x.contract
    BY <1>1, <1>3, <1>4, <2>1 DEF RunInv
  <2>3. \A x \in detaches : Free(x.contract)'
    BY <1>1, <1>6, <2>2, FreeKept
  <2> QED
    BY <1>3, <2>3
<1>10. CardOf(deploy)'
  BY <1>3, CardBusy
<1>11. (\A c \in DOMAIN records : c \in DOMAIN instances /\ records[c] = instances[c].definition)'
  BY <1>1, <1>3, <1>6, RecordsKept
<1>12. (attachedPolicies \subseteq DOMAIN instances)'
  BY <1>1, <1>3 DEF RunInv
<1> QED
  BY <1>1, <1>6, <1>7, <1>8, <1>9, <1>10, <1>11, <1>12, Keeping

\* What a run that goes on, or ends, does to the runs: `changed` is its next state, if it has one.
LEMMA RunsKeep ==
  ASSUME RunInv, Grown, NEW run \in deploys, NEW more, deploys' = (deploys \ {run}) \cup more,
         \A m \in more : RunOf(m)' /\ m.contract \in {run.contract, Len(instances) + 1} /\ \A m2 \in more : m = m2,
         detaches' \subseteq detaches,
         \A r \in deploys : r # run /\ r.step = "record" => r.contract \in attachedPolicies'
  PROVE  /\ \A r \in deploys' : RunOf(r)'
         /\ (\A r1, r2 \in deploys : r1.contract = r2.contract /\ r1.contract # 0 => r1 = r2)'
         /\ (\A x \in detaches : Free(x.contract))'
         /\ \A c : Free(c) => \A r \in deploys' : r \in deploys \/ r.contract # c
<1>1. \A r \in deploys : r # run => RunOf(r)'
  BY RunKept
<1>2. \A r \in deploys' : RunOf(r)'
  BY <1>1
<1>3. \A r \in deploys : r.contract # Len(instances) + 1
  <2>1. Len(instances) + 1 \notin DOMAIN instances /\ Len(instances) + 1 # 0
    <3> HIDE DEF Deployments
    <3> QED
      BY DEF RunInv
  <2> QED
    BY <2>1 DEF RunInv, RunOf
<1>4. (\A r1, r2 \in deploys : r1.contract = r2.contract /\ r1.contract # 0 => r1 = r2)'
  <2> SUFFICES ASSUME NEW r1 \in deploys', NEW r2 \in deploys', r1.contract = r2.contract, r1.contract # 0
               PROVE  r1 = r2
    OBVIOUS
  <2>1. CASE r1 \in deploys \ {run} /\ r2 \in deploys \ {run}
    BY <2>1 DEF RunInv
  <2>2. ASSUME NEW a \in deploys \ {run}, NEW m \in more, a.contract = m.contract, a.contract # 0 PROVE FALSE
    BY <1>3, <2>2 DEF RunInv
  <2>3. CASE r1 \in more /\ r2 \in more
    BY <2>3
  <2> QED
    BY <2>1, <2>2, <2>3
<1>5. \A c : Free(c) => \A r \in deploys' : r \in deploys \/ r.contract # c
  <2>1. Len(instances) + 1 \notin DOMAIN instances
    <3> HIDE DEF Deployments
    <3> QED
      BY DEF RunInv
  <2> QED
    BY <2>1 DEF Free
<1>6. (\A x \in detaches : Free(x.contract))'
  <2>1. \A x \in detaches : Free(x.contract)
    BY DEF RunInv
  <2>2. \A x \in detaches : Free(x.contract)'
    BY <1>5, <2>1, FreeKept
  <2> QED
    BY <2>2
<1> QED
  BY <1>2, <1>4, <1>5, <1>6

LEMMA SetStateIs == ASSUME NEW run, NEW state, SetState(run, state) PROVE deploy' \in {state, deploy}
BY DEF SetState

\* A run's record, step by step.
LEMMA StepOf ==
  ASSUME NEW run, RunOf(run), NEW step, NEW r, r = [run EXCEPT !.step = step]
  PROVE  /\ r = [card |-> r.card, step |-> r.step, policy |-> r.policy, form |-> r.form, contract |-> r.contract]
         /\ r.step = step /\ r.policy = run.policy /\ r.form = run.form /\ r.contract = run.contract
<1>1. PICK a, p, f, c : a = run.card /\ p = run.policy /\ f = run.form /\ c = run.contract
  OBVIOUS
<1>2. \E t : run = [card |-> a, step |-> t, policy |-> p, form |-> f, contract |-> c]
  BY <1>1 DEF RunOf
<1>3. r = [card |-> a, step |-> step, policy |-> p, form |-> f, contract |-> c]
  BY <1>2
<1> QED
  BY <1>1, <1>3

LEMMA SimulateKeeps ==
  ASSUME RunInv, NEW run \in deploys, SimulateAnswers(run) PROVE RunInv'
<1>1. PICK r : r = [run EXCEPT !.step = "deploy"]
  OBVIOUS
<1>2. /\ run.step = "simulate" /\ run.policy.args.kind = "spending" /\ deploys' = (deploys \ {run}) \cup {r}
      /\ deploy' \in {[name |-> "deploying", contract |-> 0], deploy}
      /\ UNCHANGED <<detaches, instances, attachedPolicies, records>>
  BY <1>1, SetStateIs DEF SimulateAnswers, NextStep, chainVars
<1>3. RunOf(run)
  BY DEF RunInv
<1>4. Grown
  BY <1>2 DEF Grown
<1>5. /\ r = [card |-> r.card, step |-> r.step, policy |-> r.policy, form |-> r.form, contract |-> r.contract]
      /\ r.step = "deploy" /\ r.policy = run.policy /\ r.form = run.form /\ r.contract = run.contract
  BY <1>1, <1>3, StepOf
<1>6. ValidForm(run.form) /\ run.policy = Generated(run.form) /\ run.contract = 0
  BY <1>2, <1>3 DEF RunOf
<1>7. Spending(run.form)
  BY <1>2, <1>6, SpendingKind
<1>8. RunOf(r)'
  BY <1>5, <1>6, <1>7 DEF RunOf
<1>9. \A m \in {r} : RunOf(m)' /\ m.contract \in {run.contract, Len(instances) + 1} /\ \A m2 \in {r} : m = m2
  BY <1>5, <1>8
<1>10. \A q \in deploys : q # run /\ q.step = "record" => q.contract \in attachedPolicies'
  BY <1>2 DEF RunInv, RunOf
<1>11. detaches' \subseteq detaches
  BY <1>2
<1>12. /\ \A q \in deploys' : RunOf(q)'
       /\ (\A r1, r2 \in deploys : r1.contract = r2.contract /\ r1.contract # 0 => r1 = r2)'
       /\ (\A x \in detaches : Free(x.contract))'
       /\ \A c : Free(c) => \A q \in deploys' : q \in deploys \/ q.contract # c
  BY <1>2, <1>4, <1>9, <1>10, <1>11, RunsKeep
<1>13. CardOf(deploy)'
  <2>1. CASE deploy' = [name |-> "deploying", contract |-> 0]
    BY <2>1, CardBusy
  <2>2. CASE deploy' = deploy
    BY <1>2, <1>4, <1>12, <2>2, CardKept DEF RunInv, CardOf
  <2> QED
    BY <1>2, <2>1, <2>2
<1>14. (\A c \in DOMAIN records : c \in DOMAIN instances /\ records[c] = instances[c].definition)'
  BY <1>2, <1>4, RecordsKept
<1>15. (attachedPolicies \subseteq DOMAIN instances)'
  BY <1>2 DEF RunInv
<1> QED
  BY <1>4, <1>12, <1>13, <1>14, <1>15, Keeping

LEMMA InstanceKeeps ==
  ASSUME RunInv, NEW run \in deploys, InstanceDeployed(run) PROVE RunInv'
<1>1. PICK a, p, f : a = run.card /\ p = run.policy /\ f = run.form
  OBVIOUS
<1>2. PICK r : r = [card |-> a, step |-> "attach", policy |-> p, form |-> f, contract |-> Len(instances) + 1]
  OBVIOUS
<1>3. /\ run.step = "deploy" /\ deploys' = (deploys \ {run}) \cup {r}
      /\ instances' = Append(instances, [form |-> f, definition |-> p.definition, args |-> p.args])
      /\ UNCHANGED <<deploy, detaches, attachedPolicies, records>>
  BY <1>1, <1>2 DEF InstanceDeployed, NextStep
<1>4. RunOf(run)
  BY DEF RunInv
<1>5. Spending(f) /\ p = Generated(f)
  BY <1>1, <1>3, <1>4 DEF RunOf
<1>6. PICK i \in Deployments : i = InstanceOf(f)
  BY <1>5 DEF Deployments, Spending, ValidForm
<1>7. instances' = Append(instances, i)
  BY <1>3, <1>5, <1>6 DEF InstanceOf
<1>8. Grown
  BY <1>7 DEF Grown
<1>9. instances \in Seq(Deployments)
  BY DEF RunInv
<1>10. Len(instances) + 1 \in DOMAIN instances' /\ instances'[Len(instances) + 1] = i
  <2> HIDE DEF Deployments
  <2> QED
    BY <1>7, <1>9
<1>11. /\ r = [card |-> r.card, step |-> r.step, policy |-> r.policy, form |-> r.form, contract |-> r.contract]
       /\ r.step = "attach" /\ r.policy = p /\ r.form = f /\ r.contract = Len(instances) + 1
  BY <1>2
<1>12. RunOf(r)'
  BY <1>5, <1>6, <1>10, <1>11 DEF RunOf, Spending
<1>13. \A m \in {r} : RunOf(m)' /\ m.contract \in {run.contract, Len(instances) + 1} /\ \A m2 \in {r} : m = m2
  BY <1>11, <1>12
<1>14. \A q \in deploys : q # run /\ q.step = "record" => q.contract \in attachedPolicies'
  BY <1>3 DEF RunInv, RunOf
<1>15. detaches' \subseteq detaches
  BY <1>3
<1>16. /\ \A q \in deploys' : RunOf(q)'
       /\ (\A r1, r2 \in deploys : r1.contract = r2.contract /\ r1.contract # 0 => r1 = r2)'
       /\ (\A x \in detaches : Free(x.contract))'
       /\ \A c : Free(c) => \A q \in deploys' : q \in deploys \/ q.contract # c
  BY <1>3, <1>8, <1>13, <1>14, <1>15, RunsKeep
<1>17. CardOf(deploy)'
  BY <1>3, <1>8, <1>16, CardKept DEF RunInv, CardOf
<1>18. (\A c \in DOMAIN records : c \in DOMAIN instances /\ records[c] = instances[c].definition)'
  BY <1>3, <1>8, RecordsKept
<1>19. (attachedPolicies \subseteq DOMAIN instances)'
  BY <1>3, <1>8, <1>9, GrownKeeps DEF RunInv
<1> QED
  BY <1>8, <1>16, <1>17, <1>18, <1>19, Keeping

LEMMA AttachKeeps ==
  ASSUME RunInv, NEW run \in deploys, AttachAnswers(run) PROVE RunInv'
<1>1. PICK r : r = [run EXCEPT !.step = "record"]
  OBVIOUS
<1>2. /\ run.step = "attach" /\ deploys' = (deploys \ {run}) \cup {r} /\ attachedPolicies' = attachedPolicies \cup {run.contract}
      /\ UNCHANGED <<deploy, detaches, instances, records>>
  BY <1>1 DEF AttachAnswers, NextStep
<1>3. RunOf(run)
  BY DEF RunInv
<1>4. Grown
  BY <1>2 DEF Grown
<1>5. /\ r = [card |-> r.card, step |-> r.step, policy |-> r.policy, form |-> r.form, contract |-> r.contract]
      /\ r.step = "record" /\ r.policy = run.policy /\ r.form = run.form /\ r.contract = run.contract
  BY <1>1, <1>3, StepOf
<1>6. /\ ValidForm(run.form) /\ run.policy = Generated(run.form) /\ Spending(run.form)
      /\ run.contract \in DOMAIN instances /\ instances[run.contract] = InstanceOf(run.form)
  BY <1>2, <1>3 DEF RunOf
<1>7. RunOf(r)'
  BY <1>2, <1>5, <1>6 DEF RunOf
<1>8. \A m \in {r} : RunOf(m)' /\ m.contract \in {run.contract, Len(instances) + 1} /\ \A m2 \in {r} : m = m2
  BY <1>5, <1>7
<1>9. \A q \in deploys : q # run /\ q.step = "record" => q.contract \in attachedPolicies'
  BY <1>2 DEF RunInv, RunOf
<1>10. detaches' \subseteq detaches
  BY <1>2
<1>11. /\ \A q \in deploys' : RunOf(q)'
       /\ (\A r1, r2 \in deploys : r1.contract = r2.contract /\ r1.contract # 0 => r1 = r2)'
       /\ (\A x \in detaches : Free(x.contract))'
       /\ \A c : Free(c) => \A q \in deploys' : q \in deploys \/ q.contract # c
  BY <1>2, <1>4, <1>8, <1>9, <1>10, RunsKeep
<1>12. deploy.name = "done" => deploy.contract # run.contract
  BY DEF RunInv, CardOf, Free
<1>13. CardOf(deploy)'
  BY <1>2, <1>4, <1>11, <1>12, CardKept DEF RunInv, CardOf
<1>14. (\A c \in DOMAIN records : c \in DOMAIN instances /\ records[c] = instances[c].definition)'
  BY <1>2, <1>4, RecordsKept
<1>15. (attachedPolicies \subseteq DOMAIN instances)'
  BY <1>2, <1>6 DEF RunInv
<1> QED
  BY <1>4, <1>11, <1>13, <1>14, <1>15, Keeping

\* A run ends: with the deployment recorded, or with an error.
LEMMA RecordKeeps ==
  ASSUME RunInv, NEW run \in deploys, RecordAnswers(run) PROVE RunInv'
<1>0. PICK none : none = {}
  OBVIOUS
<1>1. /\ run.step = "record" /\ deploys' = (deploys \ {run}) \cup none /\ records' = Recorded(run)
      /\ deploy' \in {[name |-> "done", contract |-> run.contract], deploy}
      /\ UNCHANGED <<detaches, instances, attachedPolicies>>
  BY <1>0, SetStateIs DEF RecordAnswers, chainVars
<1>2. RunOf(run)
  BY DEF RunInv
<1>3. Grown
  BY <1>1 DEF Grown
<1>4. /\ run.policy = Generated(run.form) /\ run.contract \in DOMAIN instances /\ instances[run.contract] = InstanceOf(run.form)
      /\ run.contract \in attachedPolicies
  BY <1>1, <1>2 DEF RunOf
<1>5. \A m \in none : RunOf(m)' /\ m.contract \in {run.contract, Len(instances) + 1} /\ \A m2 \in none : m = m2
  BY <1>0
<1>6. \A q \in deploys : q # run /\ q.step = "record" => q.contract \in attachedPolicies'
  BY <1>1 DEF RunInv, RunOf
<1>7. detaches' \subseteq detaches
  BY <1>1
<1>8. /\ \A q \in deploys' : RunOf(q)'
      /\ (\A r1, r2 \in deploys : r1.contract = r2.contract /\ r1.contract # 0 => r1 = r2)'
      /\ (\A x \in detaches : Free(x.contract))'
      /\ \A c : Free(c) => \A q \in deploys' : q \in deploys \/ q.contract # c
  BY <1>1, <1>3, <1>5, <1>6, <1>7, RunsKeep
<1>9. CardOf(deploy)'
  <2>1. CASE deploy' = [name |-> "done", contract |-> run.contract]
    <3>1. run.contract # 0
      BY <1>4 DEF RunInv
    <3>2. \A q \in deploys' : q.contract # run.contract
      BY <1>0, <1>1, <3>1 DEF RunInv
    <3>3. Free(run.contract)'
      BY <1>1, <1>4, <3>2 DEF Free
    <3>4. \A x \in detaches : x.contract # run.contract
      BY DEF RunInv, Free
    <3>5. PICK c, view : c = run.contract /\ view = [name |-> "done", contract |-> c]
      OBVIOUS
    <3>6. view = [name |-> view.name, contract |-> view.contract] /\ view.name = "done" /\ view.contract = run.contract
      BY <3>5
    <3>7. CardOf(view)'
      BY <1>1, <1>4, <3>3, <3>4, <3>6 DEF CardOf
    <3> QED
      BY <2>1, <3>5, <3>7
  <2>2. CASE deploy' = deploy
    BY <1>1, <1>3, <1>8, <2>2, CardKept DEF RunInv, CardOf
  <2> QED
    BY <1>1, <2>1, <2>2
<1>10. (\A c \in DOMAIN records : c \in DOMAIN instances /\ records[c] = instances[c].definition)'
  <2>1. instances[run.contract].definition = run.policy.definition
    BY <1>4 DEF InstanceOf
  <2>2. /\ DOMAIN records' = DOMAIN records \cup {run.contract} /\ records'[run.contract] = run.policy.definition
        /\ \A c \in DOMAIN records : c # run.contract => records'[c] = records[c]
    BY <1>1 DEF Recorded
  <2> QED
    BY <1>1, <1>4, <2>1, <2>2 DEF RunInv
<1>11. (attachedPolicies \subseteq DOMAIN instances)'
  BY <1>1 DEF RunInv
<1> QED
  BY <1>3, <1>8, <1>9, <1>10, <1>11, Keeping

LEMMA FailKeeps ==
  ASSUME RunInv, NEW run \in deploys, DeployFails(run) PROVE RunInv'
<1>0. PICK none : none = {}
  OBVIOUS
<1>1. /\ deploys' = (deploys \ {run}) \cup none /\ deploy' \in {[name |-> "error", contract |-> 0], deploy}
      /\ \/ attachedPolicies' = attachedPolicies
         \/ run.step = "attach" /\ attachedPolicies' = attachedPolicies \cup {run.contract}
      /\ UNCHANGED <<detaches, instances, records>>
  BY <1>0, SetStateIs DEF DeployFails
<1>2. RunOf(run)
  BY DEF RunInv
<1>3. Grown
  BY <1>1 DEF Grown
<1>4. \A m \in none : RunOf(m)' /\ m.contract \in {run.contract, Len(instances) + 1} /\ \A m2 \in none : m = m2
  BY <1>0
<1>5. \A q \in deploys : q # run /\ q.step = "record" => q.contract \in attachedPolicies'
  BY <1>1 DEF RunInv, RunOf
<1>6. detaches' \subseteq detaches
  BY <1>1
<1>7. /\ \A q \in deploys' : RunOf(q)'
      /\ (\A r1, r2 \in deploys : r1.contract = r2.contract /\ r1.contract # 0 => r1 = r2)'
      /\ (\A x \in detaches : Free(x.contract))'
      /\ \A c : Free(c) => \A q \in deploys' : q \in deploys \/ q.contract # c
  BY <1>1, <1>3, <1>4, <1>5, <1>6, RunsKeep
<1>8. CardOf(deploy)'
  <2>1. CASE deploy' = [name |-> "error", contract |-> 0]
    BY <2>1, CardBusy
  <2>2. CASE deploy' = deploy
    <3>1. deploy.name = "done" => deploy.contract # run.contract
      BY DEF RunInv, CardOf, Free
    <3> QED
      BY <1>1, <1>3, <1>7, <2>2, <3>1, CardKept DEF RunInv, CardOf
  <2> QED
    BY <1>1, <2>1, <2>2
<1>9. (\A c \in DOMAIN records : c \in DOMAIN instances /\ records[c] = instances[c].definition)'
  BY <1>1, <1>3, RecordsKept
<1>10. (attachedPolicies \subseteq DOMAIN instances)'
  BY <1>1, <1>2 DEF RunInv, RunOf
<1> QED
  BY <1>3, <1>7, <1>8, <1>9, <1>10, Keeping

LEMMA RunDetachKeeps ==
  ASSUME RunInv, RunDetach PROVE RunInv'
<1>1. PICK c, x, view : /\ c = deploy.contract /\ x = [card |-> cards, contract |-> c, step |-> "asked"] /\ view = [deploy EXCEPT !.name = "detaching"]
  OBVIOUS
<1>2. /\ deploy.name = "done" /\ detaches' = detaches \cup {x} /\ deploy' = view
      /\ UNCHANGED <<deploys, instances, attachedPolicies, records>>
  BY <1>1 DEF RunDetach, chainVars
<1>3. Grown
  BY <1>2 DEF Grown
<1>4. \A a : Free(a) => Free(a)'
  BY <1>2 DEF Free
<1>5. (\A y \in detaches : Free(y.contract))'
  <2>1. Free(c) /\ x.contract = c
    BY <1>1, <1>2 DEF RunInv, CardOf
  <2> QED
    BY <1>2, <1>4, <2>1 DEF RunInv
<1>6. CardOf(deploy)'
  <2>1. \E n : deploy = [name |-> n, contract |-> c]
    BY <1>1 DEF RunInv, CardOf
  <2>2. view = [name |-> "detaching", contract |-> c]
    BY <1>1, <2>1
  <2> QED
    BY <1>2, <2>2, CardBusy
<1>7. \A r \in deploys' : RunOf(r)'
  BY <1>2 DEF RunInv, RunOf
<1>8. (\A r1, r2 \in deploys : r1.contract = r2.contract /\ r1.contract # 0 => r1 = r2)'
  BY <1>2 DEF RunInv
<1>9. (\A a \in DOMAIN records : a \in DOMAIN instances /\ records[a] = instances[a].definition)'
  BY <1>2, <1>3, RecordsKept
<1>10. (attachedPolicies \subseteq DOMAIN instances)'
  BY <1>2 DEF RunInv
<1> QED
  BY <1>3, <1>5, <1>6, <1>7, <1>8, <1>9, <1>10, Keeping

\* A removal's answer or its landing: the card never says "attached" of a contract under removal.
LEMMA DetachKeeps ==
  ASSUME RunInv, NEW run \in detaches, DetachAnswers(run) \/ RemovalEnds(run) PROVE RunInv'
<1>1. PICK c : c = run.contract
  OBVIOUS
<1>2. /\ \A x \in detaches' : \E y \in detaches : x.contract = y.contract
      /\ attachedPolicies' \in {attachedPolicies, attachedPolicies \ {c}}
      /\ \/ deploy' = deploy \/ deploy' = [name |-> "error", contract |-> 0]
         \/ deploy' = [name |-> "detached", contract |-> c]
      /\ UNCHANGED <<deploys, instances, records>>
  <2>1. UNCHANGED <<deploys, instances, records>>
    BY DEF DetachAnswers, RemovalEnds, chainVars
  <2>2. PICK step : detaches' = Onward(run, step)
    BY DEF DetachAnswers, RemovalEnds
  <2>3. \A x \in detaches' : \E y \in detaches : x.contract = y.contract
    BY <2>2 DEF Onward
  <2>4. CASE DetachAnswers(run)
    <3>1. attachedPolicies' = attachedPolicies
      BY <2>4 DEF DetachAnswers, chainVars
    <3>2. CASE SetState(run, [name |-> "detached", contract |-> c])
      BY <2>1, <2>3, <3>1, <3>2, SetStateIs
    <3>3. CASE SetState(run, [name |-> "error", contract |-> 0])
      BY <2>1, <2>3, <3>1, <3>3, SetStateIs
    <3> QED
      BY <1>1, <2>4, <3>2, <3>3 DEF DetachAnswers
  <2>5. CASE RemovalEnds(run)
    BY <1>1, <2>1, <2>3, <2>5 DEF RemovalEnds
  <2> QED
    BY <2>4, <2>5
<1>3. Grown
  BY <1>2 DEF Grown
<1>4. Free(c)
  BY <1>1 DEF RunInv
<1>5. \A a : Free(a) => Free(a)'
  BY <1>2 DEF Free
<1>6. CardOf(deploy)'
  <2>1. CASE deploy' = [name |-> "error", contract |-> 0] \/ deploy' = [name |-> "detached", contract |-> c]
    BY <2>1, CardBusy
  <2>2. CASE deploy' = deploy
    <3>1. deploy.name = "done" => deploy.contract # c /\ \A x \in detaches' : x.contract # deploy.contract
      BY <1>1, <1>2 DEF RunInv, CardOf
    <3> QED
      BY <1>2, <1>3, <2>2, <3>1, CardKept DEF RunInv, CardOf
  <2> QED
    BY <1>2, <2>1, <2>2
<1>7. \A r \in deploys' : RunOf(r)'
  <2>1. \A r \in deploys : r.step = "record" => r.contract \in attachedPolicies'
    BY <1>2, <1>4 DEF RunInv, RunOf, Free
  <2> QED
    BY <1>2, <1>3, <2>1, RunKept
<1>8. (\A r1, r2 \in deploys : r1.contract = r2.contract /\ r1.contract # 0 => r1 = r2)'
  BY <1>2 DEF RunInv
<1>9. (\A x \in detaches : Free(x.contract))'
  <2> SUFFICES ASSUME NEW x \in detaches' PROVE Free(x.contract)'
    OBVIOUS
  <2>1. PICK y \in detaches : x.contract = y.contract
    BY <1>2
  <2>2. Free(y.contract)'
    BY <1>5 DEF RunInv
  <2> QED
    BY <2>1, <2>2
<1>10. (\A a \in DOMAIN records : a \in DOMAIN instances /\ records[a] = instances[a].definition)'
  BY <1>2, <1>3, RecordsKept
<1>11. (attachedPolicies \subseteq DOMAIN instances)'
  BY <1>2 DEF RunInv
<1> QED
  BY <1>3, <1>6, <1>7, <1>8, <1>9, <1>10, <1>11, Keeping

LEMMA PolicyStep == PolicyInv /\ (WebPolicyNext \/ UNCHANGED policyVars) => PolicyInv'
<1> SUFFICES ASSUME PolicyInv, WebPolicyNext \/ UNCHANGED policyVars PROVE PolicyInv'
  OBVIOUS
<1>1. RunInv /\ StageInv
  BY DEF PolicyInv
<1>2. CASE UNCHANGED policyVars
  BY <1>1, <1>2, FrameStage, FrameRuns DEF PolicyInv, policyVars, formVars, runVars, chainVars
<1>3. CASE \/ LoadTemplates \/ BackToPick \/ ValidateAnswers \/ GenerateAnswers \/ LeaveReview \/ ListPolicySigners
           \/ \E form \in Forms : PickTemplate(form) \/ SubmitForm(form)
  BY <1>3, FormSteps
<1>4. CASE RunDeploy \/ RunDetach \/ (\E run \in detaches : DetachAnswers(run) \/ RemovalEnds(run))
           \/ \E run \in deploys : \/ SimulateAnswers(run) \/ InstanceDeployed(run) \/ AttachAnswers(run)
                                   \/ RecordAnswers(run) \/ DeployFails(run)
  <2>1. UNCHANGED <<stage, submitted>>
    BY <1>4 DEF RunDeploy, RunDetach, DetachAnswers, RemovalEnds, SimulateAnswers, InstanceDeployed, AttachAnswers, RecordAnswers, DeployFails, formVars
  <2>2. StageInv'
    BY <1>1, <2>1, FrameStage
  <2>3. RunInv'
    BY <1>1, <1>4, RunDeployKeeps, SimulateKeeps, InstanceKeeps, AttachKeeps, RecordKeeps, FailKeeps, RunDetachKeeps, DetachKeeps
  <2> QED
    BY <2>2, <2>3 DEF PolicyInv
<1> QED
  BY <1>2, <1>3, <1>4 DEF WebPolicyNext

LEMMA PolicyStart == WebPolicyInit => PolicyInv
<1> SUFFICES ASSUME WebPolicyInit PROVE PolicyInv
  OBVIOUS
<1>1. PICK p, d : p = Pick /\ d = DeployIdle
  OBVIOUS
<1>2. p = [name |-> p.name, type |-> p.type, form |-> p.form, policy |-> p.policy] /\ p.name = "pick"
  BY <1>1 DEF Pick, StageAt
<1>3. d = [name |-> d.name, contract |-> d.contract] /\ d.name = "idle"
  BY <1>1 DEF DeployIdle
<1>4. StageInv
  BY <1>1, <1>2 DEF WebPolicyInit, StageInv
<1>5. RunInv
  BY <1>1, <1>3 DEF WebPolicyInit, RunInv, CardOf
<1> QED
  BY <1>4, <1>5 DEF PolicyInv

LEMMA PolicyPart == PolicyInv /\ [MCNext]_clientVars => PolicyInv'
<1> SUFFICES ASSUME PolicyInv, [MCNext]_clientVars PROVE PolicyInv'
  OBVIOUS
<1>1. WebPolicyNext \/ UNCHANGED policyVars
  BY DEF MCNext, clientVars
<1> QED
  BY <1>1, PolicyStep

\* What the wallet signs is what the user reviewed: a payment request is paid as the link asks it, a
\* swap as its quote was shown, and a policy that became a signer of the account refuses nothing all the
\* limits typed into the form allow, and lets nothing through that the daily limit, a per-transaction limit
\* typed alone, the cap or the list forbids (sep7.ts, quote.ts, policies/page.tsx, templates.ts).
THEOREM WhatIsSignedWasReviewed == MCSpec => []SignedAsReviewed
<1>1. MCInit => PolicyInv
  BY PolicyStart DEF MCInit
<1>2. PolicyInv /\ [MCNext]_clientVars => PolicyInv'
  BY PolicyPart
<1>3. MCSpec => []PolicyInv
  BY <1>1, <1>2, PTL DEF MCSpec
<1>4. RequestVouched /\ SwapAsReviewed /\ PolicyInv => SignedAsReviewed
  BY ReviewedHolds DEF SignedAsReviewed
<1> QED
  BY <1>3, <1>4, RequestsAreVouched, SwapsAsReviewed, PTL

-----------------------------------------------------------------------------
(***************************************************************************)
(* The activity panel.                                                     *)
(***************************************************************************)

\* Where the entries of a flattened sequence come from: the i-th is the Q[i]-th
\* of the P[i]-th sequence, in order, and none is left out.
Whence(P, Q, seqs, n, flat) ==
  /\ P \in [1..Len(flat) -> 1..n] /\ Q \in [1..Len(flat) -> Nat]
  /\ \A i \in 1..Len(flat) : Q[i] \in DOMAIN seqs[P[i]] /\ flat[i] = seqs[P[i]][Q[i]]
  /\ \A i, j \in 1..Len(flat) : i < j => P[i] < P[j] \/ (P[i] = P[j] /\ Q[i] < Q[j])
  /\ \A p \in 1..n : \A q \in DOMAIN seqs[p] : \E i \in 1..Len(flat) : P[i] = p /\ Q[i] = q

LEMMA WhenceOne ==
  ASSUME NEW S, NEW seqs \in Seq(Seq(S)), Len(seqs) # 0
  PROVE  \E P, Q : Whence(P, Q, seqs, 1, seqs[1])
<1> DEFINE P == [i \in 1..Len(seqs[1]) |-> 1]
           Q == [i \in 1..Len(seqs[1]) |-> i]
<1>1. seqs[1] \in Seq(S) /\ Len(seqs[1]) \in Nat /\ DOMAIN seqs[1] = 1..Len(seqs[1])
  OBVIOUS
<1>2. P \in [1..Len(seqs[1]) -> 1..1] /\ Q \in [1..Len(seqs[1]) -> Nat]
  BY <1>1
<1>3. \A i \in 1..Len(seqs[1]) : P[i] = 1 /\ Q[i] = i
  OBVIOUS
<1>4. \A p \in 1..1 : p = 1
  OBVIOUS
<1> HIDE DEF P, Q
<1>5. Whence(P, Q, seqs, 1, seqs[1])
  BY <1>1, <1>2, <1>3, <1>4 DEF Whence
<1> QED
  BY <1>5

LEMMA WhenceMore ==
  ASSUME NEW S, NEW seqs \in Seq(Seq(S)), NEW n \in Nat \ {0}, n + 1 \in 1..Len(seqs),
         NEW flat \in Seq(S), NEW P, NEW Q, Whence(P, Q, seqs, n, flat)
  PROVE  \E R, T : Whence(R, T, seqs, n + 1, flat \o seqs[n + 1])
<1> DEFINE s == seqs[n + 1]
           L == Len(flat)
           f == flat \o s
           R == [i \in 1..Len(f) |-> IF i <= L THEN P[i] ELSE n + 1]
           T == [i \in 1..Len(f) |-> IF i <= L THEN Q[i] ELSE i - L]
<1>1. s \in Seq(S) /\ Len(s) \in Nat /\ L \in Nat /\ DOMAIN s = 1..Len(s)
  OBVIOUS
<1>2. /\ Len(f) = L + Len(s)
      /\ \A i \in 1..L : f[i] = flat[i]
      /\ \A i \in 1..Len(f) : i > L => i - L \in 1..Len(s) /\ f[i] = s[i - L]
  BY <1>1
<1>3. /\ P \in [1..L -> 1..n] /\ Q \in [1..L -> Nat]
      /\ \A i \in 1..L : Q[i] \in DOMAIN seqs[P[i]] /\ flat[i] = seqs[P[i]][Q[i]]
      /\ \A i, j \in 1..L : i < j => P[i] < P[j] \/ (P[i] = P[j] /\ Q[i] < Q[j])
      /\ \A p \in 1..n : \A q \in DOMAIN seqs[p] : \E i \in 1..L : P[i] = p /\ Q[i] = q
  BY DEF Whence
<1> HIDE DEF f, s, L
<1>4. R \in [1..Len(f) -> 1..(n + 1)] /\ T \in [1..Len(f) -> Nat]
  BY <1>1, <1>2, <1>3, SMTT(30)
<1>5. ASSUME NEW i \in 1..Len(f) PROVE T[i] \in DOMAIN seqs[R[i]] /\ f[i] = seqs[R[i]][T[i]]
  <2>1. CASE i <= L
    <3>1. i \in 1..L /\ R[i] = P[i] /\ T[i] = Q[i] /\ f[i] = flat[i]
      BY <1>1, <1>2, <2>1
    <3> QED
      BY <3>1, <1>3
  <2>2. CASE ~(i <= L)
    <3>1. R[i] = n + 1 /\ T[i] = i - L /\ i - L \in DOMAIN s /\ f[i] = s[i - L]
      BY <1>1, <1>2, <2>2
    <3> QED
      BY <3>1 DEF s
  <2> QED
    BY <2>1, <2>2
<1>6. ASSUME NEW i \in 1..Len(f), NEW j \in 1..Len(f), i < j
      PROVE  R[i] < R[j] \/ (R[i] = R[j] /\ T[i] < T[j])
  <2>1. CASE j <= L
    <3>1. i \in 1..L /\ j \in 1..L /\ R[i] = P[i] /\ T[i] = Q[i] /\ R[j] = P[j] /\ T[j] = Q[j]
      BY <1>1, <1>2, <1>6, <2>1
    <3> QED
      BY <3>1, <1>3, <1>6
  <2>2. CASE ~(j <= L) /\ i <= L
    <3>1. i \in 1..L /\ R[i] = P[i] /\ R[j] = n + 1
      BY <1>1, <1>2, <2>2
    <3>2. P[i] \in 1..n
      BY <1>3, <3>1
    <3> QED
      BY <3>1, <3>2
  <2>3. CASE ~(i <= L)
    BY <1>1, <1>2, <1>6, <2>3
  <2> QED
    BY <2>1, <2>2, <2>3, <1>1
<1>7. ASSUME NEW p \in 1..(n + 1), NEW q \in DOMAIN seqs[p]
      PROVE  \E i \in 1..Len(f) : R[i] = p /\ T[i] = q
  <2>1. CASE p \in 1..n
    <3>1. PICK i \in 1..L : P[i] = p /\ Q[i] = q
      BY <2>1, <1>3
    <3>2. i \in 1..Len(f) /\ R[i] = p /\ T[i] = q
      BY <3>1, <1>1, <1>2
    <3> QED
      BY <3>2
  <2>2. CASE p = n + 1
    <3>1. q \in 1..Len(s)
      BY <1>1, <2>2 DEF s
    <3>2. L + q \in 1..Len(f) /\ R[L + q] = p /\ T[L + q] = q
      BY <3>1, <1>1, <1>2, <2>2, SMTT(30)
    <3> QED
      BY <3>2
  <2> QED
    BY <2>1, <2>2
<1>8. Whence(R, T, seqs, n + 1, f)
  <2> HIDE DEF R, T
  <2> QED
    BY <1>4, <1>5, <1>6, <1>7 DEF Whence
<1> QED
  BY <1>8 DEF f, s

LEMMA FlattenedWhence ==
  ASSUME NEW S, NEW seqs \in Seq(Seq(S))
  PROVE  /\ FlattenSeq(seqs) \in Seq(S)
         /\ \E P, Q : Whence(P, Q, seqs, Len(seqs), FlattenSeq(seqs))
<1>1. CASE Len(seqs) = 0
  <2>1. seqs = <<>> /\ FlattenSeq(seqs) = <<>>
    BY <1>1, FlattenedNone
  <2> DEFINE e == [i \in 1..0 |-> 0]
  <2>2. 1..Len(FlattenSeq(seqs)) = 1..0 /\ \A i \in 1..0 : FALSE
    BY <2>1
  <2>3. e \in [1..0 -> 1..0] /\ e \in [1..0 -> Nat]
    BY <2>2
  <2> HIDE DEF e
  <2>4. Whence(e, e, seqs, Len(seqs), FlattenSeq(seqs))
    <3> DEFINE flat == FlattenSeq(seqs)
    <3> HIDE DEF flat
    <3>1. 1..Len(flat) = 1..0
      BY <2>2 DEF flat
    <3>2. Whence(e, e, seqs, Len(seqs), flat)
      BY <1>1, <2>2, <2>3, <3>1 DEF Whence
    <3> QED
      BY <3>2 DEF flat
  <2>5. FlattenSeq(seqs) \in Seq(S)
    BY <2>1, EmptySeq, Zenon
  <2>6. \E P, Q : Whence(P, Q, seqs, Len(seqs), FlattenSeq(seqs))
    BY <2>4, Zenon
  <2> QED
    BY <2>5, <2>6, Zenon
<1>2. CASE Len(seqs) # 0
  <2> DEFINE n == Len(seqs)
             X == Seq(S)
  <2>1. n \in Nat \ {0}
    BY <1>2
  <2>2. PICK f \in [1..n -> X] :
           /\ f[1] = seqs[1]
           /\ \A i \in 1..n : i < n => f[i + 1] = f[i] \o seqs[i + 1]
           /\ FlattenSeq(seqs) = f[n]
    BY <1>2, Flattened
  <2> DEFINE T == {k \in Nat : k + 1 \in 1..n => \E P, Q : Whence(P, Q, seqs, k + 1, f[k + 1])}
  <2>3. 0 \in T
    BY <1>2, <2>2, WhenceOne
  <2>4. ASSUME NEW k \in Nat, k \in T PROVE k + 1 \in T
    <3> SUFFICES ASSUME (k + 1) + 1 \in 1..n
                 PROVE  \E P, Q : Whence(P, Q, seqs, (k + 1) + 1, f[(k + 1) + 1])
      OBVIOUS
    <3>1. k + 1 \in 1..n /\ k + 1 < n /\ k + 1 \in Nat \ {0}
      BY <2>1
    <3>2. PICK P, Q : Whence(P, Q, seqs, k + 1, f[k + 1])
      BY <2>4, <3>1
    <3>3. f[k + 1] \in Seq(S) /\ f[(k + 1) + 1] = f[k + 1] \o seqs[(k + 1) + 1]
      BY <2>2, <3>1
    <3>4. \E R, U : Whence(R, U, seqs, (k + 1) + 1, f[k + 1] \o seqs[(k + 1) + 1])
      <4> HIDE DEF T
      <4> QED
        BY <3>1, <3>2, <3>3, WhenceMore
    <3> QED
      BY <3>3, <3>4
  <2>5. \A k \in Nat : k \in T
    <3> HIDE DEF T
    <3> QED
      BY <2>3, <2>4, NatSets
  <2>6. \E P, Q : Whence(P, Q, seqs, n, f[n])
    <3>1. n - 1 \in Nat /\ (n - 1) + 1 = n /\ n \in 1..n
      BY <2>1
    <3> QED
      BY <2>5, <3>1
  <2>7. FlattenSeq(seqs) \in Seq(S)
    BY <2>1, <2>2
  <2>8. \E P, Q : Whence(P, Q, seqs, Len(seqs), FlattenSeq(seqs))
    BY <2>2, <2>6, Zenon
  <2> QED
    BY <2>7, <2>8, Zenon
<1> QED
  BY <1>1, <1>2

\* EntriesOf takes the places it is given, in order.
Picks(o, s, at, r) ==
  /\ o \in [1..Len(r) -> at] /\ \A i \in 1..Len(r) : r[i] = s[o[i]]
  /\ \A i, j \in 1..Len(r) : i < j => o[i] < o[j]
  /\ \A k \in at : \E i \in 1..Len(r) : o[i] = k

LEMMA EntriesPicked ==
  ASSUME NEW S, NEW s \in Seq(S), NEW at \in SUBSET DOMAIN s
  PROVE  EntriesOf(s, at) \in Seq(S) /\ \E o : Picks(o, s, at, EntriesOf(s, at))
<1> DEFINE seqs == [i \in DOMAIN s |-> IF i \in at THEN <<s[i]>> ELSE <<>>]
           r == EntriesOf(s, at)
<1>1. DOMAIN s = 1..Len(s) /\ Len(s) \in Nat /\ \A i \in DOMAIN s : s[i] \in S
  OBVIOUS
<1>2. \A i \in DOMAIN s : seqs[i] \in Seq(S)
  BY <1>1
<1>3. seqs \in Seq(Seq(S)) /\ Len(seqs) = Len(s)
  <2> DEFINE X == Seq(S)
  <2>1. DOMAIN seqs = 1..Len(s) /\ \A i \in 1..Len(s) : seqs[i] \in X
    BY <1>1, <1>2
  <2>2. seqs = [i \in 1..Len(s) |-> seqs[i]]
    BY <1>1
  <2> HIDE DEF seqs, X
  <2>3. seqs \in [1..Len(s) -> X]
    BY <2>1, <2>2
  <2>4. seqs \in Seq(X)
    BY <1>1, <2>3, SeqDef
  <2> QED
    BY <1>1, <2>1, <2>4, LenProperties DEF X
<1>4. r = FlattenSeq(seqs)
  BY DEF EntriesOf
<1>5. r \in Seq(S) /\ \E P, Q : Whence(P, Q, seqs, Len(s), r)
  <2> HIDE DEF seqs, r
  <2> QED
    BY <1>3, <1>4, FlattenedWhence
<1>6. PICK P, Q : Whence(P, Q, seqs, Len(s), r)
  BY <1>5
<1>7. \A i \in DOMAIN s : IF i \in at THEN DOMAIN seqs[i] = {1} /\ seqs[i][1] = s[i] ELSE DOMAIN seqs[i] = {}
  BY <1>1
<1> HIDE DEF seqs, r
<1>8. ASSUME NEW i \in 1..Len(r) PROVE P[i] \in at /\ Q[i] = 1 /\ r[i] = s[P[i]]
  <2>1. P[i] \in DOMAIN s /\ Q[i] \in DOMAIN seqs[P[i]] /\ r[i] = seqs[P[i]][Q[i]]
    BY <1>1, <1>6 DEF Whence
  <2> QED
    BY <2>1, <1>7
<1>9. P \in [1..Len(r) -> at]
  BY <1>6, <1>8 DEF Whence
<1>10. \A i, j \in 1..Len(r) : i < j => P[i] < P[j]
  BY <1>6, <1>8, <1>5 DEF Whence
<1>11. ASSUME NEW k \in at PROVE \E i \in 1..Len(r) : P[i] = k
  <2>1. k \in 1..Len(s) /\ 1 \in DOMAIN seqs[k]
    BY <1>1, <1>7
  <2> QED
    BY <2>1, <1>6 DEF Whence
<1>12. Picks(P, s, at, r)
  BY <1>8, <1>9, <1>10, <1>11 DEF Picks
<1> QED
  BY <1>5, <1>12 DEF r

\* r lists the entries of s at the places "at", in order.
Picked(s, at, r) ==
  /\ \A i \in DOMAIN r : \E k \in at : r[i] = s[k]
  /\ \A k \in at : \E i \in DOMAIN r : r[i] = s[k]
  /\ \A i, j \in DOMAIN r : i < j => \E k, m \in at : k < m /\ r[i] = s[k] /\ r[j] = s[m]

LEMMA PicksKeep ==
  ASSUME NEW S, NEW s \in Seq(S), NEW at \in SUBSET DOMAIN s
  PROVE  EntriesOf(s, at) \in Seq(S) /\ Picked(s, at, EntriesOf(s, at))
<1> DEFINE r == EntriesOf(s, at)
<1>1. r \in Seq(S) /\ \E o : Picks(o, s, at, r)
  BY EntriesPicked
<1>2. PICK o : Picks(o, s, at, r)
  BY <1>1
<1>3. \A i \in 1..Len(r) : o[i] \in at
  BY <1>2 DEF Picks
<1> HIDE DEF r
<1>4. DOMAIN r = 1..Len(r)
  BY <1>1
<1>5. Picked(s, at, r)
  BY <1>2, <1>3, <1>4 DEF Picks, Picked
<1> QED
  BY <1>1, <1>5 DEF r

\* r lists the entries of the sequences, one sequence after the other.
Flat(seqs, r) ==
  /\ \A i \in DOMAIN r : \E p \in DOMAIN seqs : \E q \in DOMAIN seqs[p] : r[i] = seqs[p][q]
  /\ \A p \in DOMAIN seqs : \A q \in DOMAIN seqs[p] : \E i \in DOMAIN r : r[i] = seqs[p][q]
  /\ \A i, j \in DOMAIN r : i < j =>
       \E p, t \in DOMAIN seqs : \E q \in DOMAIN seqs[p], u \in DOMAIN seqs[t] :
         /\ p < t \/ (p = t /\ q < u)
         /\ r[i] = seqs[p][q] /\ r[j] = seqs[t][u]

LEMMA FlattenKeeps ==
  ASSUME NEW S, NEW seqs \in Seq(Seq(S))
  PROVE  FlattenSeq(seqs) \in Seq(S) /\ Flat(seqs, FlattenSeq(seqs))
<1> DEFINE r == FlattenSeq(seqs)
<1>1. r \in Seq(S) /\ \E P, Q : Whence(P, Q, seqs, Len(seqs), r)
  BY FlattenedWhence
<1>2. PICK P, Q : Whence(P, Q, seqs, Len(seqs), r)
  BY <1>1
<1> HIDE DEF r
<1>3. DOMAIN seqs = 1..Len(seqs) /\ DOMAIN r = 1..Len(r)
  BY <1>1
<1>4. \A i \in 1..Len(r) : P[i] \in DOMAIN seqs /\ Q[i] \in DOMAIN seqs[P[i]] /\ r[i] = seqs[P[i]][Q[i]]
  BY <1>2, <1>3 DEF Whence
<1>5. ASSUME NEW p \in DOMAIN seqs, NEW q \in DOMAIN seqs[p]
      PROVE  \E i \in 1..Len(r) : r[i] = seqs[p][q]
  <2>1. PICK i \in 1..Len(r) : P[i] = p /\ Q[i] = q
    BY <1>2, <1>3 DEF Whence
  <2> QED
    BY <2>1, <1>4
<1>6. ASSUME NEW i \in DOMAIN r, NEW j \in DOMAIN r, i < j
      PROVE  \E p, t \in DOMAIN seqs : \E q \in DOMAIN seqs[p], u \in DOMAIN seqs[t] :
               /\ p < t \/ (p = t /\ q < u)
               /\ r[i] = seqs[p][q] /\ r[j] = seqs[t][u]
  <2>1. P[i] < P[j] \/ (P[i] = P[j] /\ Q[i] < Q[j])
    BY <1>2, <1>3, <1>6 DEF Whence
  <2> QED
    BY <1>3, <1>4, <2>1
<1>7. Flat(seqs, r)
  <2>1. \A i \in DOMAIN r : \E p \in DOMAIN seqs : \E q \in DOMAIN seqs[p] : r[i] = seqs[p][q]
    BY <1>3, <1>4
  <2>2. \A p \in DOMAIN seqs : \A q \in DOMAIN seqs[p] : \E i \in DOMAIN r : r[i] = seqs[p][q]
    BY <1>3, <1>5
  <2>3. \A i, j \in DOMAIN r : i < j =>
          \E p, t \in DOMAIN seqs : \E q \in DOMAIN seqs[p], u \in DOMAIN seqs[t] :
            /\ p < t \/ (p = t /\ q < u)
            /\ r[i] = seqs[p][q] /\ r[j] = seqs[t][u]
    BY <1>6, Zenon
  <2> QED
    BY <2>1, <2>2, <2>3, Zenon DEF Flat
<1> QED
  BY <1>1, <1>7 DEF r

Row == [rail : {"soroban", "classic"}, at : 1..MaxHead, n : Nat, kind : STRING]

\* t lists what s lists.
Lists(s, t) ==
  /\ \A i \in DOMAIN t : \E k \in DOMAIN s : t[i] = s[k]
  /\ \A k \in DOMAIN s : \E i \in DOMAIN t : t[i] = s[k]

LEMMA ByTimeLists ==
  ASSUME NEW rows \in Seq(Row)
  PROVE  ByTime(rows) \in Seq(Row) /\ Lists(rows, ByTime(rows))
<1> DEFINE Place(k) == {i \in DOMAIN rows : rows[i].at = MaxHead + 1 - k}
           seqs == [k \in 1..MaxHead |-> EntriesOf(rows, Place(k))]
           t == ByTime(rows)
<1>0. MaxHead \in Nat
  BY ActivityAssumption
<1>1. DOMAIN rows = 1..Len(rows) /\ Len(rows) \in Nat /\ \A i \in DOMAIN rows : rows[i] \in Row
  OBVIOUS
<1>2. ASSUME NEW k \in 1..MaxHead
      PROVE  /\ seqs[k] \in Seq(Row)
             /\ \A q \in DOMAIN seqs[k] : seqs[k][q].at = MaxHead + 1 - k /\ \E i \in DOMAIN rows : seqs[k][q] = rows[i]
             /\ \A i \in DOMAIN rows : rows[i].at = MaxHead + 1 - k => \E q \in DOMAIN seqs[k] : seqs[k][q] = rows[i]
  <2> DEFINE r == EntriesOf(rows, Place(k))
             A == Place(k)
  <2>1. seqs[k] = r /\ A \in SUBSET DOMAIN rows
    OBVIOUS
  <2>2. \A i \in A : i \in DOMAIN rows /\ rows[i].at = MaxHead + 1 - k
    OBVIOUS
  <2>3. \A i \in DOMAIN rows : rows[i].at = MaxHead + 1 - k => i \in A
    OBVIOUS
  <2>4. r = EntriesOf(rows, A)
    OBVIOUS
  <2> HIDE DEF A, r, seqs
  <2>5. r \in Seq(Row) /\ Picked(rows, A, r)
    BY <2>1, <2>4, PicksKeep
  <2> QED
    BY <2>1, <2>2, <2>3, <2>5 DEF Picked
<1>3. seqs \in Seq(Seq(Row)) /\ DOMAIN seqs = 1..MaxHead
  <2> DEFINE X == Seq(Row)
  <2>1. DOMAIN seqs = 1..MaxHead /\ seqs = [k \in 1..MaxHead |-> seqs[k]]
    OBVIOUS
  <2>2. \A k \in 1..MaxHead : seqs[k] \in X
    BY <1>2
  <2> HIDE DEF seqs, X
  <2>3. seqs \in [1..MaxHead -> X]
    BY <2>1, <2>2
  <2>4. seqs \in Seq(X)
    BY <1>0, <2>3, SeqDef
  <2> QED
    BY <2>1, <2>4 DEF X
<1>4. t = FlattenSeq(seqs)
  BY DEF ByTime
<1> HIDE DEF seqs, t
<1>5. t \in Seq(Row) /\ Flat(seqs, t)
  BY <1>3, <1>4, FlattenKeeps
<1>6. DOMAIN t = 1..Len(t) /\ Len(t) \in Nat
  BY <1>5
<1>7. Lists(rows, t)
  <2>1. ASSUME NEW i \in DOMAIN t PROVE \E k \in DOMAIN rows : t[i] = rows[k]
    <3>1. PICK p \in DOMAIN seqs : \E q \in DOMAIN seqs[p] : t[i] = seqs[p][q]
      BY <1>5 DEF Flat
    <3> QED
      BY <3>1, <1>2, <1>3
  <2>2. ASSUME NEW k \in DOMAIN rows PROVE \E i \in DOMAIN t : t[i] = rows[k]
    <3>1. rows[k].at \in 1..MaxHead
      BY <1>1 DEF Row
    <3>2. PICK p \in 1..MaxHead : rows[k].at = MaxHead + 1 - p
      <4>1. MaxHead + 1 - rows[k].at \in 1..MaxHead /\ rows[k].at = MaxHead + 1 - (MaxHead + 1 - rows[k].at)
        BY <1>0, <3>1
      <4> QED
        BY <4>1
    <3>3. PICK q \in DOMAIN seqs[p] : seqs[p][q] = rows[k]
      BY <3>2, <1>2
    <3> QED
      BY <3>2, <3>3, <1>3, <1>5 DEF Flat
  <2> QED
    BY <2>1, <2>2 DEF Lists
<1> QED
  BY <1>5, <1>7 DEF t

\* An event of the window is in the page, unless it is no transfer, its asset
\* has no name, or the scan stopped before it.
Told(e, pg, asset) ==
  \/ ~parseSACTransfer(e) \/ (\E i \in DOMAIN pg.rows : pg.rows[i] = e)
  \/ (e.kind = "token" /\ asset = "unnamed") \/ e.at >= pg.unread

PageSound(pg, asset) ==
  /\ pg.rows \in Seq(Row) /\ pg.unread \in Nat
  /\ pg.window[1] \in 1..Len(ledgers) /\ pg.window[2] \in 1..Len(ledgers)
  /\ \A l \in pg.window[1]..pg.window[2] : \A n \in DOMAIN ledgers[l] : Told(EventsOf(l)[n], pg, asset)

\* Where the next page resumes: before the window read, and at an operation.
ResumeSound(pg) ==
  /\ pg.next.e = <<>> \/ (pg.next.e = <<pg.next.e[1], pg.next.e[2]>>
                             /\ pg.next.e[1] \in 1..pg.next.e[2] /\ pg.next.e[2] = pg.window[1] - 1)
  /\ pg.next.o \in 0..Len(operations)
  /\ ~classic => pg.next.o = 0

\* The pages a fetch has built, or the query holds.
Chain(ps, asset) ==
  /\ \A p \in DOMAIN ps : PageSound(ps[p], asset) /\ ResumeSound(ps[p])
  /\ \A l \in ps[Len(ps)].window[1]..ps[1].window[2] :
       \E p \in DOMAIN ps : l \in ps[p].window[1]..ps[p].window[2]
  /\ classic => \A t \in DOMAIN operations :
       t >= ps[Len(ps)].next.o /\ ClassicRow(t)
         => \E p \in DOMAIN ps : \E i \in DOMAIN ps[p].rows :
              ps[p].rows[i].rail = "classic" /\ ps[p].rows[i].n = t

Page == [rows : Seq(Row), next : [e : Seq(Nat), o : Nat], unread : Nat, window : Seq(Nat)]

PagesChained(ps, asset) == ps \in Seq(Page) /\ (ps # <<>> => Chain(ps, asset))

\* The node and what is known of the account.
ActivityTyped ==
  /\ ledgers \in Seq(Contents) /\ Len(ledgers) \in (Retention + 1)..MaxHead
  /\ classic \in BOOLEAN /\ (operations = <<>> \/ operations \in Operations)
  /\ assetCache \in {"absent", "named", "unnamed"}

LoadRecord == [step : {"idle", "health", "scan", "widened", "assemble"}, want : Nat, built : Seq(Page),
               latest : Nat, oldest : Nat, from : Nat, to : Nat, events : Seq(Row), unread : Nat]

\* What a scan found: events from its window on, those before "unread" all of them.
Gathered(ev, from, to, unread) ==
  /\ ev \in Seq(Row) /\ unread \in Nat
  /\ \A i \in DOMAIN ev : ev[i].at \in from..Len(ledgers)
  /\ \A l \in from..to : l < unread => \A n \in DOMAIN ledgers[l] : \E i \in DOMAIN ev : ev[i] = EventsOf(l)[n]

\* A fetch under way: it goes on after the pages it has, within what the node keeps.
LoadSound ==
  /\ load \in LoadRecord
  /\ PagesChained(load.built, assetCache)
  /\ load.step # "idle" /\ load.built # <<>> => load.built[Len(load.built)].next # NoCursor
  /\ load.step \in {"scan", "widened", "assemble"} =>
       /\ load.latest \in (Retention + 1)..Len(ledgers) /\ load.oldest = load.latest - Retention
       /\ load.from \in 1..load.to /\ load.to \in 1..load.latest
       /\ load.built # <<>> => load.built[1].window[2] <= load.latest
       /\ Carried => load.from = Cursor.e[1] /\ load.to = Cursor.e[2]
       /\ ~Carried => load.to = load.latest /\ (load.step = "scan" => load.from = load.latest - WINDOW_LEDGERS)
  /\ load.step = "assemble" =>
       load.from >= load.oldest /\ Gathered(load.events, load.from, load.to, load.unread)

ActivityInv == ActivityTyped /\ LoadSound /\ PagesChained(pages, assetCache)

LEMMA Bounds ==
  /\ WINDOW_LEDGERS \in Nat \ {0} /\ HISTORY_PAGE_SIZE \in Nat \ {0} /\ SCAN_PAGE_SIZE \in Nat \ {0}
  /\ MAX_SCAN_PAGES \in Nat /\ MAX_SCAN_PAGES > 1
  /\ HISTORY_DISPLAY_LIMIT \in Nat /\ Retention \in Nat /\ MaxHead \in Nat
  /\ Retention > 2 * WINDOW_LEDGERS /\ MaxHead > Retention
  BY ActivityAssumption

LEMMA EventsTyped ==
  ASSUME ActivityTyped, NEW l \in 1..Len(ledgers)
  PROVE  /\ EventsOf(l) \in Seq(Row) /\ DOMAIN EventsOf(l) = DOMAIN ledgers[l]
         /\ \A n \in DOMAIN ledgers[l] : /\ n \in Nat /\ EventsOf(l)[n] \in Row
                                         /\ EventsOf(l)[n].at = l /\ EventsOf(l)[n].n = n
                                         /\ EventsOf(l)[n].kind = ledgers[l][n] /\ EventsOf(l)[n].rail = "soroban"
<1>1. Len(ledgers) \in Nat /\ Len(ledgers) <= MaxHead /\ l \in 1..MaxHead
  BY Bounds DEF ActivityTyped
<1>2. ledgers[l] \in Seq(STRING)
  <2>1. ledgers[l] \in Contents /\ Contents \subseteq Seq(STRING)
    BY <1>1, ActivityAssumption, SMTT(30) DEF ActivityTyped
  <2> QED
    BY <2>1
<1> DEFINE k == ledgers[l]
<1>3. DOMAIN k = 1..Len(k) /\ Len(k) \in Nat /\ \A n \in DOMAIN k : k[n] \in STRING
  BY <1>2
<1>4. EventsOf(l) = [n \in DOMAIN k |-> [rail |-> "soroban", at |-> l, n |-> n, kind |-> k[n]]]
  BY DEF EventsOf
<1> HIDE DEF k
<1>5. \A n \in DOMAIN k : n \in Nat /\ [rail |-> "soroban", at |-> l, n |-> n, kind |-> k[n]] \in Row
  BY <1>1, <1>3 DEF Row
<1>6. EventsOf(l) \in [1..Len(k) -> Row]
  BY <1>3, <1>4, <1>5
<1>7. EventsOf(l) \in Seq(Row)
  BY <1>3, <1>6, SeqDef
<1> QED
  BY <1>4, <1>5, <1>7 DEF k

\* The node streams the events of a window, oldest first, every one once.
Streamed(s, from, to) ==
  /\ s \in Seq(Row)
  /\ \A i \in DOMAIN s : \E l \in from..to : \E n \in DOMAIN ledgers[l] : s[i] = EventsOf(l)[n]
  /\ \A i, j \in DOMAIN s : i < j => s[i].at <= s[j].at /\ s[i] # s[j]

LEMMA StreamSorted ==
  ASSUME ActivityTyped, NEW to \in 0..Len(ledgers), NEW from \in 1..(to + 1)
  PROVE  /\ Streamed(Stream(from, to), from, to)
         /\ \A l \in from..to : \A n \in DOMAIN ledgers[l] :
              \E i \in DOMAIN Stream(from, to) : Stream(from, to)[i] = EventsOf(l)[n]
<1> DEFINE m == to + 1 - from
           seqs == [k \in 1..m |-> EventsOf(from + k - 1)]
           s == Stream(from, to)
<1>1. Len(ledgers) \in Nat /\ m \in Nat /\ from \in Nat /\ to \in Nat
  BY DEF ActivityTyped
<1>2. \A k \in 1..m : from + k - 1 \in 1..Len(ledgers) /\ from + k - 1 \in from..to /\ seqs[k] = EventsOf(from + k - 1)
  BY <1>1
<1>3. \A k \in 1..m : seqs[k] \in Seq(Row)
  BY <1>2, EventsTyped
<1>4. seqs \in Seq(Seq(Row)) /\ DOMAIN seqs = 1..m
  <2> DEFINE X == Seq(Row)
  <2>1. DOMAIN seqs = 1..m /\ seqs = [k \in 1..m |-> seqs[k]]
    OBVIOUS
  <2>2. \A k \in 1..m : seqs[k] \in X
    BY <1>3
  <2> HIDE DEF seqs, X, m
  <2>3. seqs \in [1..m -> X]
    BY <2>1, <2>2
  <2>4. seqs \in Seq(X)
    BY <1>1, <2>3, SeqDef
  <2> QED
    BY <2>1, <2>4 DEF X
<1>5. s = FlattenSeq(seqs)
  BY DEF Stream
<1> HIDE DEF s, seqs
<1>6. s \in Seq(Row) /\ Flat(seqs, s)
  BY <1>4, <1>5, FlattenKeeps
<1>7. ASSUME NEW p \in DOMAIN seqs, NEW q \in DOMAIN seqs[p]
      PROVE  /\ from + p - 1 \in from..to /\ q \in DOMAIN ledgers[from + p - 1]
             /\ seqs[p][q] = EventsOf(from + p - 1)[q]
             /\ seqs[p][q].at = from + p - 1 /\ seqs[p][q].n = q
  <2>1. PICK l : l = from + p - 1
    OBVIOUS
  <2>2. l \in 1..Len(ledgers) /\ l \in from..to /\ seqs[p] = EventsOf(l)
    BY <1>2, <1>4, <2>1
  <2>3. DOMAIN seqs[p] = DOMAIN ledgers[l]
    BY <2>2, EventsTyped
  <2>4. q \in DOMAIN ledgers[l]
    BY <2>3
  <2>5. EventsOf(l)[q].at = l /\ EventsOf(l)[q].n = q
    BY <2>2, <2>4, EventsTyped
  <2> QED
    BY <2>1, <2>2, <2>4, <2>5
<1>8. ASSUME NEW i \in DOMAIN s
      PROVE  \E l \in from..to : \E n \in DOMAIN ledgers[l] : s[i] = EventsOf(l)[n]
  <2>1. PICK p \in DOMAIN seqs : \E q \in DOMAIN seqs[p] : s[i] = seqs[p][q]
    BY <1>6 DEF Flat
  <2>2. PICK q \in DOMAIN seqs[p] : s[i] = seqs[p][q]
    BY <2>1
  <2> QED
    BY <2>2, <1>7
<1>9. ASSUME NEW i \in DOMAIN s, NEW j \in DOMAIN s, i < j PROVE s[i].at <= s[j].at /\ s[i] # s[j]
  <2>1. PICK p, v \in DOMAIN seqs : \E q \in DOMAIN seqs[p], u \in DOMAIN seqs[v] :
                /\ p < v \/ (p = v /\ q < u)
                /\ s[i] = seqs[p][q] /\ s[j] = seqs[v][u]
    BY <1>6, <1>9 DEF Flat
  <2>2. PICK q \in DOMAIN seqs[p], u \in DOMAIN seqs[v] :
                /\ p < v \/ (p = v /\ q < u)
                /\ s[i] = seqs[p][q] /\ s[j] = seqs[v][u]
    BY <2>1
  <2>3. /\ s[i].at = from + p - 1 /\ s[i].n = q /\ s[j].at = from + v - 1 /\ s[j].n = u
    BY <2>2, <1>7
  <2>4. p \in Nat /\ v \in Nat
    BY <1>4
  <2>5. q \in Nat /\ u \in Nat
    <3>1. \A k \in 1..m : \A n \in DOMAIN seqs[k] : n \in Nat
      BY <1>3
    <3> QED
      BY <3>1, <1>4
  <2>6. s[i].at <= s[j].at
    BY <1>1, <2>2, <2>3, <2>4
  <2>7. s[i].at # s[j].at \/ s[i].n # s[j].n
    BY <1>1, <2>2, <2>3, <2>4, <2>5
  <2> QED
    BY <2>6, <2>7
<1>10. ASSUME NEW l \in from..to, NEW n \in DOMAIN ledgers[l]
       PROVE  \E i \in DOMAIN s : s[i] = EventsOf(l)[n]
  <2>1. PICK k : k = l + 1 - from
    OBVIOUS
  <2>2. k \in 1..m /\ from + k - 1 = l /\ l \in 1..Len(ledgers)
    BY <1>1, <2>1
  <2>3. seqs[k] = EventsOf(l)
    BY <2>2, <1>2
  <2>4. n \in DOMAIN seqs[k] /\ k \in DOMAIN seqs
    BY <1>4, <2>2, <2>3, EventsTyped
  <2>5. \E i \in DOMAIN s : s[i] = seqs[k][n]
    BY <1>6, <2>4 DEF Flat
  <2> QED
    BY <2>3, <2>5
<1>11. Streamed(s, from, to)
  BY <1>6, <1>8, <1>9 DEF Streamed
<1> QED
  BY <1>10, <1>11 DEF s

LEMMA Lesser ==
  \A a \in Nat \ {0}, b \in Nat : \A k : k = MinOf(a, b) =>
    /\ k \in 0..b /\ (a < b => k = a) /\ (~(a < b) => k = b)
    /\ a < b => a \in 1..b
  BY DEF MinOf

\* A scan begins with the oldest of the stream, and stops at a ledger.
LEMMA Prefixed ==
  ASSUME ActivityTyped, NEW to \in 1..Len(ledgers), NEW from \in 1..to, NEW budget \in Nat \ {0},
         NEW s, s = Stream(from, Len(ledgers)), NEW k, k = MinOf(budget, Len(s))
  PROVE  Gathered(SubSeq(s, 1, k), from, to, IF budget < Len(s) THEN s[budget].at ELSE to + 1)
<1> DEFINE t == SubSeq(s, 1, k)
           unread == IF budget < Len(s) THEN s[budget].at ELSE to + 1
<1>1. Len(ledgers) \in Nat /\ Len(ledgers) \in 0..Len(ledgers) /\ from \in 1..(Len(ledgers) + 1)
  BY DEF ActivityTyped
<1>2. /\ Streamed(s, from, Len(ledgers))
      /\ \A l \in from..Len(ledgers) : \A n \in DOMAIN ledgers[l] : \E i \in DOMAIN s : s[i] = EventsOf(l)[n]
  BY <1>1, StreamSorted
<1>3. s \in Seq(Row) /\ Len(s) \in Nat /\ DOMAIN s = 1..Len(s)
  BY <1>2 DEF Streamed
<1>4. k \in 0..Len(s) /\ (budget < Len(s) => k = budget) /\ (~(budget < Len(s)) => k = Len(s))
  BY <1>3, Lesser, Zenon
<1>5. t \in Seq(Row) /\ DOMAIN t = 1..k /\ \A i \in 1..k : t[i] = s[i] /\ i \in DOMAIN s
  BY <1>3, <1>4
<1> HIDE DEF t
<1>6. \A i \in DOMAIN s : s[i].at \in from..Len(ledgers)
  <2>1. ASSUME NEW i \in DOMAIN s PROVE s[i].at \in from..Len(ledgers)
    <3>1. PICK l \in from..Len(ledgers) : \E n \in DOMAIN ledgers[l] : s[i] = EventsOf(l)[n]
      BY <1>2 DEF Streamed
    <3>2. l \in 1..Len(ledgers)
      BY <1>1
    <3> QED
      BY <3>1, <3>2, EventsTyped
  <2> QED
    BY <2>1
<1>7. unread \in Nat
  <2>1. budget < Len(s) => budget \in DOMAIN s
    BY <1>3
  <2> QED
    BY <2>1, <1>1, <1>6
<1>8. ASSUME NEW l \in from..to, l < unread, NEW n \in DOMAIN ledgers[l] PROVE \E i \in DOMAIN t : t[i] = EventsOf(l)[n]
  <2>1. l \in from..Len(ledgers) /\ l \in 1..Len(ledgers)
    BY <1>1
  <2>2. PICK i \in DOMAIN s : s[i] = EventsOf(l)[n]
    BY <1>2, <1>8, <2>1
  <2>3. s[i].at = l
    BY <1>8, <2>1, <2>2, EventsTyped
  <2>4. i \in 1..k
    <3>1. CASE ~(budget < Len(s))
      BY <3>1, <1>3, <1>4
    <3>2. CASE budget < Len(s)
      <4>1. budget \in DOMAIN s /\ k = budget /\ i \in Nat /\ i >= 1
        <5>1. k = budget /\ budget \in DOMAIN s
          BY <3>2, <1>3, Lesser, Zenon
        <5>2. i \in Nat /\ i >= 1
          <6>1. i \in 1..Len(s) /\ Len(s) \in Nat
            BY <1>3
          <6> QED
            BY <6>1
        <5> QED
          BY <5>1, <5>2
      <4>2. ~(s[budget].at <= s[i].at)
        <5>1. l < s[budget].at /\ s[budget].at \in Int /\ l \in Int
          BY <3>2, <4>1, <1>1, <1>6, <1>8
        <5> QED
          BY <5>1, <2>3
      <4>3. ~(budget < i)
        BY <4>1, <4>2, <1>2 DEF Streamed
      <4> QED
        BY <4>1, <4>3
    <3> QED
      BY <3>1, <3>2
  <2> QED
    BY <2>2, <2>4, <1>5
<1>9. \A i \in DOMAIN t : t[i].at \in from..Len(ledgers)
  BY <1>5, <1>6
<1> HIDE DEF unread
<1>10. Gathered(t, from, to, unread)
  BY <1>5, <1>7, <1>8, <1>9 DEF Gathered
<1> QED
  BY <1>10 DEF t, unread

LEMMA ScanGathers ==
  ASSUME ActivityTyped, NEW to \in 1..Len(ledgers), NEW from \in 1..to, NEW scan \in Scans(from, to)
  PROVE  Gathered(scan.events, from, to, scan.unread)
<1>1. Len(ledgers) \in Nat /\ to \in Nat /\ from \in Nat
  BY DEF ActivityTyped
<1>2. PICK w, s : w = Stream(from, to - 1) /\ s = Stream(from, Len(ledgers))
  OBVIOUS
<1>3. PICK budget : budget = MinOf(SCAN_PAGE_SIZE, Len(w)) + (MAX_SCAN_PAGES - 1) * SCAN_PAGE_SIZE
  OBVIOUS
<1>4. /\ Streamed(w, from, to - 1)
      /\ \A l \in from..(to - 1) : \A n \in DOMAIN ledgers[l] : \E i \in DOMAIN w : w[i] = EventsOf(l)[n]
  <2>1. to - 1 \in 0..Len(ledgers) /\ from \in 1..((to - 1) + 1)
    BY <1>1
  <2> QED
    BY <1>2, <2>1, StreamSorted
<1>5. budget \in Nat \ {0}
  <2>1. PICK p, q : p = MAX_SCAN_PAGES - 1 /\ q = SCAN_PAGE_SIZE
    OBVIOUS
  <2>2. p \in Nat \ {0} /\ q \in Nat \ {0}
    BY <2>1, Bounds
  <2>3. p * q \in Nat \ {0}
    BY <2>2
  <2>4. MinOf(SCAN_PAGE_SIZE, Len(w)) \in Nat
    BY <1>4, Bounds DEF MinOf, Streamed
  <2> QED
    BY <1>3, <2>1, <2>3, <2>4
<1>6. \/ scan = [events |-> SubSeq(s, 1, MinOf(budget, Len(s))), unread |-> IF budget < Len(s) THEN s[budget].at ELSE to + 1]
      \/ scan = [events |-> w, unread |-> to]
  BY <1>2, <1>3 DEF Scans
<1>7. CASE scan = [events |-> SubSeq(s, 1, MinOf(budget, Len(s))), unread |-> IF budget < Len(s) THEN s[budget].at ELSE to + 1]
  <2>1. PICK k : k = MinOf(budget, Len(s))
    OBVIOUS
  <2>2. scan.events = SubSeq(s, 1, k) /\ scan.unread = IF budget < Len(s) THEN s[budget].at ELSE to + 1
    BY <1>7, <2>1
  <2>3. Gathered(SubSeq(s, 1, k), from, to, IF budget < Len(s) THEN s[budget].at ELSE to + 1)
    BY <1>2, <1>5, <2>1, Prefixed
  <2> QED
    BY <2>2, <2>3
<1>8. CASE scan = [events |-> w, unread |-> to]
  <2>1. w \in Seq(Row)
    BY <1>4 DEF Streamed
  <2>2. ASSUME NEW i \in DOMAIN w PROVE w[i].at \in from..Len(ledgers)
    <3>1. PICK l \in from..(to - 1) : \E n \in DOMAIN ledgers[l] : w[i] = EventsOf(l)[n]
      BY <1>4 DEF Streamed
    <3>2. l \in 1..Len(ledgers) /\ l \in from..Len(ledgers)
      BY <1>1
    <3> QED
      BY <3>1, <3>2, EventsTyped
  <2>3. \A l \in from..to : l < to => l \in from..(to - 1)
    BY <1>1
  <2>4. Gathered(w, from, to, to)
    BY <1>1, <1>4, <2>1, <2>2, <2>3 DEF Gathered
  <2> QED
    BY <1>8, <2>4
<1> QED
  BY <1>6, <1>7, <1>8

\* A transfer whose asset has a name.
Shows(e, asset) == parseSACTransfer(e) /\ (e.kind = "token" => asset = "named")

LEMMA SorobanListed ==
  ASSUME NEW ev \in Seq(Row), NEW asset
  PROVE  /\ SorobanRows(ev, asset) \in Seq(Row)
         /\ \A k \in DOMAIN ev : Shows(ev[k], asset) => \E i \in DOMAIN SorobanRows(ev, asset) : SorobanRows(ev, asset)[i] = ev[k]
<1> DEFINE at == {i \in DOMAIN ev : parseSACTransfer(ev[i]) /\ (ev[i].kind = "token" => asset = "named")}
           s == EntriesOf(ev, at)
           r == SorobanRows(ev, asset)
<1>1. at \in SUBSET DOMAIN ev /\ \A k \in DOMAIN ev : k \in at <=> Shows(ev[k], asset)
  BY DEF Shows
<1>2. r = Reverse(s)
  BY DEF SorobanRows
<1> HIDE DEF at
<1>3. s \in Seq(Row) /\ Picked(ev, at, s)
  BY <1>1, PicksKeep
<1> HIDE DEF s, r
<1>4. /\ Len(s) \in Nat /\ DOMAIN s = 1..Len(s) /\ \A i \in DOMAIN s : s[i] \in Row
      /\ r = [i \in 1..Len(s) |-> s[(Len(s) - i) + 1]]
  BY <1>2, <1>3 DEF Reverse
<1>5. \A i \in 1..Len(s) : (Len(s) - i) + 1 \in 1..Len(s) /\ (Len(s) - ((Len(s) - i) + 1)) + 1 = i
  BY <1>4
<1>6. r \in [1..Len(s) -> Row] /\ DOMAIN r = 1..Len(s)
  BY <1>4, <1>5
<1>7. r \in Seq(Row)
  BY <1>4, <1>6, SeqDef
<1>8. \A k \in DOMAIN s : \E i \in DOMAIN r : r[i] = s[k]
  BY <1>4, <1>5, <1>6
<1>9. \A k \in DOMAIN ev : Shows(ev[k], asset) => \E i \in DOMAIN r : r[i] = ev[k]
  BY <1>1, <1>3, <1>8 DEF Picked
<1> QED
  BY <1>7, <1>9 DEF r

Op0 == [at : 1..MaxHead, kind : STRING]

LEMMA OperationsTyped == ActivityTyped => operations \in Seq(Op0) /\ Len(operations) \in Nat
<1> SUFFICES ASSUME ActivityTyped PROVE operations \in Seq(Op0)
  OBVIOUS
<1>1. Operations \subseteq Seq(Op0)
  BY ActivityAssumption DEF Op0
<1>2. <<>> \in Seq(Op0)
  OBVIOUS
<1> QED
  BY <1>1, <1>2 DEF ActivityTyped

LEMMA ClassicListed ==
  ASSUME ActivityTyped, NEW ops \in Seq(1..Len(operations))
  PROVE  /\ ClassicRows(ops) \in Seq(Row)
         /\ \A k \in DOMAIN ops : ClassicRow(ops[k]) =>
              \E i \in DOMAIN ClassicRows(ops) : ClassicRows(ops)[i].rail = "classic" /\ ClassicRows(ops)[i].n = ops[k]
<1> DEFINE at == {k \in DOMAIN ops : ClassicRow(ops[k])}
           kept == EntriesOf(ops, at)
           r == ClassicRows(ops)
           N == 1..Len(operations)
<1>1. at \in SUBSET DOMAIN ops /\ \A k \in DOMAIN ops : k \in at <=> ClassicRow(ops[k])
  OBVIOUS
<1>2. r = [k \in DOMAIN kept |-> [rail |-> "classic", at |-> operations[kept[k]].at, n |-> kept[k], kind |-> operations[kept[k]].kind]]
  BY DEF ClassicRows
<1> HIDE DEF at
<1>3. kept \in Seq(N) /\ Picked(ops, at, kept)
  <2> HIDE DEF N
  <2>1. ops \in Seq(N)
    BY DEF N
  <2> QED
    BY <1>1, <2>1, PicksKeep
<1> HIDE DEF r, kept
<1>4. operations \in Seq(Op0) /\ Len(operations) \in Nat
  BY OperationsTyped
<1>5. Len(kept) \in Nat /\ DOMAIN kept = 1..Len(kept) /\ \A k \in DOMAIN kept : kept[k] \in N /\ kept[k] \in Nat
  BY <1>3, <1>4
<1>6. \A k \in DOMAIN kept : operations[kept[k]] \in Op0
  BY <1>4, <1>5
<1>7. \A k \in DOMAIN kept : r[k] \in Row /\ r[k].rail = "classic" /\ r[k].n = kept[k]
  BY <1>2, <1>5, <1>6 DEF Row, Op0
<1>8. r \in [1..Len(kept) -> Row] /\ DOMAIN r = DOMAIN kept
  BY <1>2, <1>5, <1>7
<1>9. r \in Seq(Row)
  <2>1. PICK n \in Nat : n = Len(kept)
    BY <1>5, Zenon
  <2>2. r \in [1..n -> Row]
    BY <1>8, <2>1, Zenon
  <2> QED
    BY <2>2, SeqDef, SMTT(30)
<1>10. ASSUME NEW k \in DOMAIN ops, ClassicRow(ops[k])
       PROVE  \E i \in DOMAIN r : r[i].rail = "classic" /\ r[i].n = ops[k]
  <2>1. PICK i \in DOMAIN kept : kept[i] = ops[k]
    BY <1>1, <1>3, <1>10 DEF Picked
  <2> QED
    BY <2>1, <1>7, <1>8
<1> QED
  BY <1>9, <1>10 DEF r

LEMMA PageRows ==
  ASSUME ActivityTyped, NEW ev \in Seq(Row), NEW asset, NEW ops \in Seq(1..Len(operations)),
         NEW rows, rows = ByTime(SorobanRows(ev, asset) \o ClassicRows(ops))
  PROVE  /\ rows \in Seq(Row)
         /\ \A k \in DOMAIN ev : Shows(ev[k], asset) => \E i \in DOMAIN rows : rows[i] = ev[k]
         /\ \A k \in DOMAIN ops : ClassicRow(ops[k]) =>
              \E i \in DOMAIN rows : rows[i].rail = "classic" /\ rows[i].n = ops[k]
<1> DEFINE a == SorobanRows(ev, asset)
           b == ClassicRows(ops)
           c == a \o b
<1>1. /\ a \in Seq(Row)
      /\ \A k \in DOMAIN ev : Shows(ev[k], asset) => \E i \in DOMAIN a : a[i] = ev[k]
  BY SorobanListed
<1>2. /\ b \in Seq(Row)
      /\ \A k \in DOMAIN ops : ClassicRow(ops[k]) => \E i \in DOMAIN b : b[i].rail = "classic" /\ b[i].n = ops[k]
  BY ClassicListed
<1> HIDE DEF a, b
<1>3. /\ c \in Seq(Row)
      /\ \A i \in DOMAIN a : i \in DOMAIN c /\ c[i] = a[i]
      /\ \A i \in DOMAIN b : Len(a) + i \in DOMAIN c /\ c[Len(a) + i] = b[i]
  BY <1>1, <1>2
<1> HIDE DEF c
<1>4. rows = ByTime(c)
  BY DEF a, b, c
<1>5. rows \in Seq(Row) /\ Lists(c, rows)
  BY <1>3, <1>4, ByTimeLists
<1>6. ASSUME NEW k \in DOMAIN ev, Shows(ev[k], asset) PROVE \E i \in DOMAIN rows : rows[i] = ev[k]
  <2>1. PICK i \in DOMAIN a : a[i] = ev[k]
    BY <1>1, <1>6
  <2>2. i \in DOMAIN c /\ c[i] = ev[k]
    BY <1>3, <2>1
  <2> QED
    BY <1>5, <2>2 DEF Lists
<1>7. ASSUME NEW k \in DOMAIN ops, ClassicRow(ops[k])
      PROVE  \E i \in DOMAIN rows : rows[i].rail = "classic" /\ rows[i].n = ops[k]
  <2>1. PICK i \in DOMAIN b : b[i].rail = "classic" /\ b[i].n = ops[k]
    BY <1>2, <1>7
  <2>2. PICK j \in DOMAIN c : c[j] = b[i]
    BY <1>3
  <2>3. PICK x \in DOMAIN rows : rows[x] = c[j]
    BY <1>5 DEF Lists
  <2> QED
    BY <2>1, <2>2, <2>3
<1> QED
  BY <1>5, <1>6, <1>7

LEMMA OperationsRead ==
  ASSUME ActivityTyped, NEW o \in 0..Len(operations), NEW r, r = OperationsPage(o),
         NEW token, token = IF r = <<>> THEN 0 ELSE Last(r)
  PROVE  /\ r \in Seq(1..Len(operations)) /\ token \in 0..Len(operations)
         /\ \A t \in 1..Len(operations) : t >= token \/ Len(r) < HISTORY_PAGE_SIZE
              => (o # 0 /\ t >= o) \/ \E k \in DOMAIN r : r[k] = t
<1> DEFINE N == Len(operations)
           before == IF o = 0 THEN Len(operations) ELSE o - 1
           count == MinOf(HISTORY_PAGE_SIZE, before)
<1>1. N \in Nat /\ HISTORY_PAGE_SIZE \in Nat \ {0}
  BY OperationsTyped, Bounds
<1>2. before \in 0..N /\ (o = 0 => before = N) /\ (o # 0 => before = o - 1)
  BY <1>1
<1>3. r = [k \in 1..count |-> before + 1 - k]
  BY DEF OperationsPage
<1> HIDE DEF before
<1>4. count \in 0..before /\ (count < HISTORY_PAGE_SIZE => count = before) /\ (count = 0 => before = 0)
  BY <1>1, <1>2 DEF MinOf
<1> HIDE DEF count
<1>5. r \in [1..count -> 1..N] /\ \A k \in 1..count : r[k] = before + 1 - k
  BY <1>1, <1>2, <1>3, <1>4
<1>6. r \in Seq(1..N) /\ Len(r) = count /\ DOMAIN r = 1..count
  <2> DEFINE X == 1..N
  <2>1. count \in Nat
    BY <1>1, <1>2, <1>4
  <2>2. r \in [1..count -> X]
    BY <1>5
  <2> HIDE DEF X
  <2>3. r \in Seq(X)
    BY <2>1, <2>2, SeqDef
  <2>4. Len(r) = count /\ DOMAIN r = 1..count
    BY <2>1, <2>2, <2>3
  <2> QED
    BY <2>3, <2>4 DEF X
<1>7. IF count = 0 THEN token = 0 ELSE token = before + 1 - count
  <2>1. CASE count = 0
    BY <2>1, <1>6
  <2>2. CASE count # 0
    <3>1. r # <<>> /\ count \in 1..count
      BY <2>2, <1>2, <1>4, <1>6
    <3>2. token = r[count]
      BY <3>1, <1>6 DEF Last
    <3> QED
      BY <2>2, <3>1, <3>2, <1>5
  <2> QED
    BY <2>1, <2>2
<1>8. token \in 0..N
  BY <1>1, <1>2, <1>4, <1>7
<1>9. ASSUME NEW t \in 1..N, t >= token \/ Len(r) < HISTORY_PAGE_SIZE
      PROVE  (o # 0 /\ t >= o) \/ \E k \in DOMAIN r : r[k] = t
  <2>1. CASE t > before
    BY <2>1, <1>1, <1>2
  <2>2. CASE t <= before
    <3>1. t >= before + 1 - count
      BY <2>2, <1>1, <1>2, <1>4, <1>6, <1>7, <1>9
    <3>2. before + 1 - t \in 1..count /\ before + 1 - (before + 1 - t) = t
      BY <2>2, <3>1, <1>1, <1>2, <1>4
    <3> QED
      BY <3>2, <1>5, <1>6
  <2> QED
    BY <2>1, <2>2, <1>1, <1>2
<1> QED
  BY <1>6, <1>8, <1>9

\* A resolved asset stays, and one that a window needs is resolved.
LEMMA AssetResolved ==
  ASSUME ActivityTyped, NEW ev, NEW asset \in ResolvedAs(ev)
  PROVE  /\ asset \in {"absent", "named", "unnamed"} /\ (assetCache = "unnamed" => asset = "unnamed")
         /\ (\E i \in DOMAIN ev : ev[i].kind = "token") => asset \in {"named", "unnamed"}
  BY DEF ActivityTyped, ResolvedAs

\* What is told stays told.
LEMMA ToldStays ==
  ASSUME NEW ps, NEW a, NEW b, PagesChained(ps, a), a = "unnamed" => b = "unnamed"
  PROVE  PagesChained(ps, b)
<1>1. ASSUME NEW pg, PageSound(pg, a) PROVE PageSound(pg, b)
  BY <1>1 DEF PageSound, Told
<1> QED
  BY <1>1 DEF PagesChained, Chain

LEMMA CursorSound ==
  ASSUME ActivityTyped, LoadSound, load.step # "idle"
  PROVE  /\ Len(load.built) \in Nat /\ DOMAIN load.built = 1..Len(load.built)
         /\ Cursor.o \in 0..Len(operations)
         /\ load.built = <<>> => Cursor.o = 0 /\ ~Carried
         /\ load.built # <<>> => /\ Len(load.built) # 0 /\ Len(load.built) \in DOMAIN load.built
                                 /\ Chain(load.built, assetCache) /\ Cursor = load.built[Len(load.built)].next
         /\ load.built # <<>> /\ ~classic => Carried
<1> DEFINE b == load.built
<1>1. b \in Seq(Page) /\ (b # <<>> => Chain(b, assetCache))
  BY DEF LoadSound, PagesChained, LoadRecord
<1>2. Len(b) \in Nat /\ DOMAIN b = 1..Len(b) /\ (b # <<>> => Len(b) # 0 /\ Len(b) \in DOMAIN b)
  BY <1>1
<1>3. b # <<>> => Cursor = b[Len(b)].next
  BY DEF Cursor, Last
<1>4. b = <<>> => Cursor = NoCursor
  BY DEF Cursor
<1>5. NoCursor.o = 0 /\ NoCursor.e = <<>> /\ 0 \in 0..Len(operations)
  BY OperationsTyped DEF NoCursor
<1>6. ASSUME b # <<>> PROVE b[Len(b)] \in Page /\ ResumeSound(b[Len(b)]) /\ b[Len(b)].next # NoCursor
  BY <1>1, <1>2, <1>6, SMTT(30) DEF Chain, LoadSound, LoadRecord
<1>7. b # <<>> => Cursor.o \in 0..Len(operations)
  BY <1>3, <1>6 DEF ResumeSound
<1>8. ASSUME b # <<>>, ~classic PROVE Cursor.e # <<>>
  <2>1. /\ b[Len(b)].next \in [e : Seq(Nat), o : Nat] /\ b[Len(b)].next.o = 0
        /\ b[Len(b)].next # NoCursor
    BY <1>6, <1>8 DEF Page, ResumeSound
  <2>2. \A x \in [e : Seq(Nat), o : Nat] : x.o = 0 /\ x.e = <<>> => x = NoCursor
    BY DEF NoCursor
  <2> QED
    BY <2>1, <2>2, <1>3, <1>8
<1> QED
  BY <1>1, <1>2, <1>3, <1>4, <1>5, <1>7, <1>8 DEF Carried

\* The page that Assemble makes.
NewPage(pg, asset, ops) ==
  LET to == ResumeBefore(load.events, load.from, load.oldest)
  IN  pg = [rows |-> ByTime(SorobanRows(load.events, asset) \o ClassicRows(ops)),
            next |-> NextCursor(to, load.oldest, ops),
            unread |-> load.unread, window |-> <<to + 1, load.to>>]

LEMMA NewPageSound ==
  ASSUME ActivityTyped, LoadSound, load.step = "assemble", NEW asset \in ResolvedAs(load.events),
         NEW ops, ops = IF classic THEN OperationsPage(Cursor.o) ELSE <<>>,
         NEW pg, NewPage(pg, asset, ops)
  PROVE  /\ pg \in Page /\ PageSound(pg, asset) /\ ResumeSound(pg) /\ pg.window[2] = load.to
         /\ \A t \in 1..Len(operations) : classic /\ t >= pg.next.o =>
              \/ Cursor.o # 0 /\ t >= Cursor.o
              \/ ClassicRow(t) => \E i \in DOMAIN pg.rows : pg.rows[i].rail = "classic" /\ pg.rows[i].n = t
<1> DEFINE N == Len(operations)
           ev == load.events
           to == ResumeBefore(ev, load.from, load.oldest)
           token == IF ops = <<>> THEN 0 ELSE Last(ops)
           resume == IF to > load.oldest THEN <<MaxOf(load.oldest, to + 1 - WINDOW_LEDGERS), to>> ELSE <<>>
           exhausted == ~classic \/ Len(ops) < HISTORY_PAGE_SIZE
<1>1. /\ load.latest \in (Retention + 1)..Len(ledgers) /\ load.oldest = load.latest - Retention
      /\ load.from \in 1..load.to /\ load.to \in 1..load.latest /\ load.from >= load.oldest
      /\ Gathered(load.events, load.from, load.to, load.unread)
  BY DEF LoadSound, LoadRecord
<1>2. /\ Retention \in Nat /\ Len(ledgers) \in Nat /\ load.latest \in Nat /\ load.oldest \in Nat \ {0}
      /\ load.from \in Nat \ {0} /\ load.to \in Nat \ {0} /\ load.to \in 1..Len(ledgers)
      /\ WINDOW_LEDGERS \in Nat \ {0} /\ HISTORY_PAGE_SIZE \in Nat \ {0}
  BY <1>1, Bounds, SMTT(30) DEF ActivityTyped
<1>3. /\ ev \in Seq(Row) /\ load.unread \in Nat /\ \A k \in DOMAIN ev : ev[k].at \in load.from..Len(ledgers)
      /\ \A l \in load.from..load.to : l < load.unread =>
           \A n \in DOMAIN ledgers[l] : \E i \in DOMAIN ev : ev[i] = EventsOf(l)[n]
  BY <1>1 DEF Gathered
<1>4. Cursor.o \in 0..N /\ N \in Nat
  BY CursorSound, OperationsTyped
<1>5. /\ ops \in Seq(1..N) /\ token \in 0..N /\ (~classic => ops = <<>> /\ token = 0)
      /\ \A t \in 1..N : classic /\ (t >= token \/ exhausted)
              => (Cursor.o # 0 /\ t >= Cursor.o) \/ \E k \in DOMAIN ops : ops[k] = t
  <2>1. CASE classic
    <3>1. ops = OperationsPage(Cursor.o)
      BY <2>1
    <3>2. /\ ops \in Seq(1..N) /\ token \in 0..N
          /\ \A t \in 1..N : t >= token \/ Len(ops) < HISTORY_PAGE_SIZE
               => (Cursor.o # 0 /\ t >= Cursor.o) \/ \E k \in DOMAIN ops : ops[k] = t
      BY <1>4, <3>1, OperationsRead
    <3> QED
      BY <2>1, <3>2
  <2>2. CASE ~classic
    <3>1. ops = <<>>
      BY <2>2
    <3> QED
      BY <2>2, <3>1, <1>4
  <2> QED
    BY <2>1, <2>2
<1>6. /\ pg = [rows |-> ByTime(SorobanRows(ev, asset) \o ClassicRows(ops)), next |-> NextCursor(to, load.oldest, ops),
               unread |-> load.unread, window |-> <<to + 1, load.to>>]
      /\ NextCursor(to, load.oldest, ops)
           = IF resume = <<>> /\ exhausted THEN NoCursor ELSE [e |-> resume, o |-> token]
  BY DEF NewPage, NextCursor, encodePageCursor
<1>7. /\ pg.rows = ByTime(SorobanRows(ev, asset) \o ClassicRows(ops))
      /\ pg.next = IF resume = <<>> /\ exhausted THEN NoCursor ELSE [e |-> resume, o |-> token]
      /\ pg.unread = load.unread /\ pg.window[1] = to + 1 /\ pg.window[2] = load.to
      /\ pg = [rows |-> pg.rows, next |-> pg.next, unread |-> pg.unread, window |-> <<to + 1, load.to>>]
  <2> HIDE DEF resume, exhausted, token, to
  <2> QED
    BY <1>6
<1>8. to \in Nat /\ to + 1 >= load.from /\ to + 1 <= Len(ledgers)
  <2>1. CASE ev = <<>>
    <3>1. to = MaxOf(load.oldest, load.from - 1)
      BY <2>1 DEF ResumeBefore
    <3>2. PICK o, f, t, x : o = load.oldest /\ f = load.from /\ t = load.to /\ x = load.latest
      OBVIOUS
    <3>3. /\ o \in Nat /\ f \in Nat \ {0} /\ t \in Nat /\ x \in Nat /\ o <= f /\ f <= t /\ t <= x /\ x <= Len(ledgers)
          /\ o + 1 <= x
      <4>1. PICK h, R : h = Len(ledgers) /\ R = Retention
        OBVIOUS
      <4>2. R \in Nat /\ R >= 1 /\ h \in Nat
        BY Bounds, <4>1, <1>2
      <4>3. x \in (R + 1)..h /\ o = x - R /\ f \in 1..t /\ t \in 1..x /\ f >= o /\ t \in Nat \ {0}
        BY <1>1, <1>2, <3>2, <4>1
      <4>4. /\ o \in Nat /\ f \in Nat \ {0} /\ t \in Nat /\ x \in Nat /\ o <= f /\ f <= t /\ t <= x /\ x <= h
            /\ o + 1 <= x
        BY <4>2, <4>3
      <4> QED
        BY <4>1, <4>4
    <3> HIDE DEF to, ev
    <3>4. PICK d : d = to
      OBVIOUS
    <3>5. d = IF o > f - 1 THEN o ELSE f - 1
      BY <3>1, <3>2, <3>4 DEF MaxOf
    <3>6. d \in Nat /\ d + 1 >= f /\ d + 1 <= Len(ledgers)
      BY <3>3, <3>5, <1>2
    <3> QED
      BY <3>2, <3>4, <3>6
  <2>2. CASE ev # <<>>
    <3>1. to = ev[1].at - 1
      BY <2>2 DEF ResumeBefore
    <3>2. 1 \in DOMAIN ev
      BY <1>3, <2>2
    <3> HIDE DEF to, ev
    <3>3. PICK e, f : e = ev[1].at /\ f = load.from
      OBVIOUS
    <3>4. e \in f..Len(ledgers) /\ to = e - 1
      BY <3>1, <3>2, <3>3, <1>3
    <3>5. f \in Nat \ {0} /\ Len(ledgers) \in Nat
      BY <3>3, <1>2
    <3>6. to \in Nat /\ to + 1 >= f /\ to + 1 <= Len(ledgers)
      BY <3>4, <3>5
    <3> QED
      BY <3>3, <3>6
  <2> QED
    BY <2>1, <2>2
<1> HIDE DEF to, ev
<1>10. /\ pg.rows \in Seq(Row)
       /\ \A k \in DOMAIN ev : Shows(ev[k], asset) => \E i \in DOMAIN pg.rows : pg.rows[i] = ev[k]
       /\ \A k \in DOMAIN ops : ClassicRow(ops[k]) =>
            \E i \in DOMAIN pg.rows : pg.rows[i].rail = "classic" /\ pg.rows[i].n = ops[k]
  BY <1>3, <1>5, <1>7, PageRows
<1>11. ASSUME NEW l \in pg.window[1]..pg.window[2], NEW n \in DOMAIN ledgers[l]
       PROVE  Told(EventsOf(l)[n], pg, asset)
  <2>1. l \in load.from..load.to /\ l \in 1..Len(ledgers)
    <3>1. PICK a, b, f : a = to + 1 /\ b = load.to /\ f = load.from
      OBVIOUS
    <3>2. l \in a..b
      BY <1>7, <3>1
    <3>3. a \in Nat /\ a >= f /\ b \in 1..Len(ledgers) /\ f \in Nat \ {0} /\ Len(ledgers) \in Nat
      BY <1>2, <1>8, <3>1
    <3>4. l \in f..b /\ l \in 1..Len(ledgers)
      BY <3>2, <3>3
    <3> QED
      BY <3>1, <3>4
  <2>2. CASE ~(l < load.unread)
    <3>1. EventsOf(l)[n].at = l
      BY <2>1, EventsTyped
    <3>2. l >= pg.unread
      BY <2>1, <2>2, <1>3, <1>7
    <3> QED
      BY <3>1, <3>2 DEF Told
  <2>3. CASE l < load.unread
    <3>1. PICK i \in DOMAIN ev : ev[i] = EventsOf(l)[n]
      BY <1>3, <2>1, <2>3
    <3>2. CASE Shows(ev[i], asset)
      BY <3>1, <3>2, <1>10 DEF Told
    <3>3. CASE ~parseSACTransfer(ev[i])
      BY <3>1, <3>3 DEF Told
    <3>4. CASE ev[i].kind = "token" /\ asset # "named"
      <4>1. asset = "unnamed"
        BY <3>4, AssetResolved DEF ev
      <4> QED
        BY <3>1, <3>4, <4>1 DEF Told
    <3> QED
      BY <3>2, <3>3, <3>4 DEF Shows
  <2> QED
    BY <2>2, <2>3
<1>12. PageSound(pg, asset)
  <2>1. pg.window[1] \in 1..Len(ledgers) /\ pg.window[2] \in 1..Len(ledgers) /\ pg.unread \in Nat
    BY <1>2, <1>3, <1>7, <1>8
  <2> QED
    BY <2>1, <1>10, <1>11 DEF PageSound
<1>13. /\ resume \in Seq(Nat)
       /\ resume = <<>> \/ (resume = <<resume[1], resume[2]>> /\ resume[1] \in 1..resume[2] /\ resume[2] = to)
  <2>1. CASE to > load.oldest
    <3>1. PICK x : x = MaxOf(load.oldest, to + 1 - WINDOW_LEDGERS)
      OBVIOUS
    <3>2. x \in 1..to /\ x \in Nat
      BY <2>1, <3>1, <1>2, <1>8 DEF MaxOf
    <3>3. resume = <<x, to>>
      BY <2>1, <3>1
    <3> HIDE DEF resume
    <3> QED
      BY <3>2, <3>3, <1>8
  <2>2. CASE ~(to > load.oldest)
    <3>1. resume = <<>>
      BY <2>2
    <3> QED
      BY <3>1
  <2> QED
    BY <2>1, <2>2
<1> HIDE DEF resume, exhausted, token
<1>14. pg.next \in [e : Seq(Nat), o : Nat]
  BY <1>4, <1>5, <1>7, <1>13 DEF NoCursor
<1>15. ResumeSound(pg)
  <2>1. CASE resume = <<>> /\ exhausted
    <3>1. pg.next.e = <<>> /\ pg.next.o = 0
      BY <2>1, <1>7 DEF NoCursor
    <3> QED
      BY <3>1, <1>4 DEF ResumeSound
  <2>2. CASE ~(resume = <<>> /\ exhausted)
    <3>1. pg.next.e = resume /\ pg.next.o = token
      BY <2>2, <1>7
    <3>2. pg.window[1] - 1 = to
      BY <1>7, <1>8
    <3> QED
      BY <3>1, <3>2, <1>5, <1>13 DEF ResumeSound
  <2> QED
    BY <2>1, <2>2
<1>16. pg \in Page
  <2>1. <<to + 1, load.to>> \in Seq(Nat)
    BY <1>2, <1>8
  <2>2. \A r \in Seq(Row), x \in [e : Seq(Nat), o : Nat], c \in Nat, w \in Seq(Nat) :
          [rows |-> r, next |-> x, unread |-> c, window |-> w] \in Page
    BY DEF Page
  <2>3. pg.unread \in Nat /\ pg.rows \in Seq(Row)
    BY <1>3, <1>7, <1>10
  <2>4. [rows |-> pg.rows, next |-> pg.next, unread |-> pg.unread, window |-> <<to + 1, load.to>>] \in Page
    BY <2>1, <2>2, <2>3, <1>14
  <2> QED
    BY <2>4, <1>7
<1>17. ASSUME NEW t \in 1..N, classic, t >= pg.next.o, ~(Cursor.o # 0 /\ t >= Cursor.o), ClassicRow(t)
       PROVE  \E i \in DOMAIN pg.rows : pg.rows[i].rail = "classic" /\ pg.rows[i].n = t
  <2>1. t >= token \/ exhausted
    BY <1>7, <1>17
  <2>2. PICK k \in DOMAIN ops : ops[k] = t
    BY <2>1, <1>5, <1>17
  <2> QED
    BY <2>2, <1>10, <1>17
<1> QED
  BY <1>7, <1>12, <1>15, <1>16, <1>17

LEMMA ChainGrows ==
  ASSUME ActivityTyped, LoadSound, load.step = "assemble", NEW asset \in ResolvedAs(load.events),
         NEW ops, ops = IF classic THEN OperationsPage(Cursor.o) ELSE <<>>,
         NEW pg, NewPage(pg, asset, ops), NEW ps, ps = Append(load.built, pg)
  PROVE  PagesChained(ps, asset) /\ Len(ps) # 0 /\ ps[Len(ps)] = pg
<1> DEFINE b == load.built
           n == Len(load.built)
<1>1. /\ pg \in Page /\ PageSound(pg, asset) /\ ResumeSound(pg) /\ pg.window[2] = load.to
      /\ \A t \in 1..Len(operations) : classic /\ t >= pg.next.o =>
           \/ Cursor.o # 0 /\ t >= Cursor.o
           \/ ClassicRow(t) => \E i \in DOMAIN pg.rows : pg.rows[i].rail = "classic" /\ pg.rows[i].n = t
  BY NewPageSound
<1>2. PagesChained(b, asset)
  <2>1. PagesChained(b, assetCache) /\ (assetCache = "unnamed" => asset = "unnamed")
    BY AssetResolved DEF LoadSound, LoadRecord
  <2> QED
    BY <2>1, ToldStays
<1>3. /\ n \in Nat /\ DOMAIN b = 1..n /\ Cursor.o \in 0..Len(operations)
      /\ b = <<>> => Cursor.o = 0 /\ ~Carried
      /\ b # <<>> => n # 0 /\ n \in DOMAIN b /\ Chain(b, assetCache) /\ Cursor = b[n].next
      /\ b # <<>> /\ ~classic => Carried
  BY CursorSound
<1>4. b # <<>> => Chain(b, asset)
  BY <1>2 DEF PagesChained
<1>5. /\ load.latest \in (Retention + 1)..Len(ledgers) /\ load.to \in 1..load.latest
      /\ (b # <<>> => b[1].window[2] <= load.latest)
      /\ (Carried => load.to = Cursor.e[2]) /\ (~Carried => load.to = load.latest)
  BY DEF LoadSound, LoadRecord
<1>6. Len(ledgers) \in Nat /\ Retention \in Nat /\ load.latest \in Nat /\ load.to \in Nat
  BY <1>5, Bounds DEF ActivityTyped
<1>7. /\ ps \in Seq(Page) /\ Len(ps) = n + 1 /\ ps[n + 1] = pg /\ DOMAIN ps = 1..(n + 1)
      /\ \A p \in 1..n : ps[p] = b[p] /\ p \in DOMAIN b
  BY <1>1, <1>2, <1>3 DEF PagesChained
<1> HIDE DEF b, n
<1>8. \A p \in 1..(n + 1) : p \in 1..n \/ p = n + 1
  BY <1>3
<1>9. n = 0 <=> b = <<>>
  <2>1. b \in Seq(Page)
    BY <1>2 DEF PagesChained
  <2> QED
    BY <2>1, <1>3 DEF n, b
<1>10. \A p \in DOMAIN ps : PageSound(ps[p], asset) /\ ResumeSound(ps[p])
  <2>1. \A p \in 1..n : b # <<>> /\ PageSound(b[p], asset) /\ ResumeSound(b[p])
    BY <1>3, <1>4, <1>9, SMTT(30) DEF Chain
  <2> QED
    BY <2>1, <1>1, <1>7, <1>8
<1>11. ASSUME b # <<>>, Carried PROVE load.to = b[n].window[1] - 1
  <2>1. Cursor = b[n].next /\ Cursor.e # <<>> /\ ResumeSound(b[n])
    BY <1>3, <1>4, <1>11 DEF Chain, Carried
  <2> QED
    BY <2>1, <1>5, <1>11 DEF ResumeSound
<1>12. \A p \in DOMAIN ps : ps[p].window[2] \in Nat /\ ps[p].window[1] \in Nat
  BY <1>6, <1>10, SMTT(30) DEF PageSound
<1>14. ASSUME NEW l \in ps[Len(ps)].window[1]..ps[1].window[2]
       PROVE  \E p \in DOMAIN ps : l \in ps[p].window[1]..ps[p].window[2]
  <2>0. /\ ps[Len(ps)] = pg /\ n + 1 \in DOMAIN ps /\ pg.window[1] \in Nat /\ pg.window[2] \in Nat
        /\ l \in pg.window[1]..ps[1].window[2]
    BY <1>3, <1>7, <1>12, <1>14
  <2>1. CASE l <= pg.window[2]
    <3>1. l \in pg.window[1]..pg.window[2]
      BY <2>0, <2>1
    <3> QED
      BY <3>1, <2>0, <1>7
  <2>2. CASE ~(l <= pg.window[2])
    <3>1. l \in Nat /\ l > load.to
      BY <2>0, <2>2, <1>1, <1>6
    <3>2. CASE b = <<>>
      <4>1. ps[1] = pg
        BY <3>2, <1>7, <1>9
      <4> QED
        BY <4>1, <2>0, <2>2
    <3>3. CASE b # <<>>
      <4>1. ps[1] = b[1] /\ 1 \in DOMAIN ps
        BY <3>3, <1>3, <1>7
      <4>2. Carried
        <5> SUFFICES ASSUME ~Carried PROVE FALSE
          OBVIOUS
        <5>1. load.to = load.latest /\ b[1].window[2] <= load.latest /\ b[1].window[2] \in Nat
          BY <3>3, <4>1, <1>5, <1>12
        <5> QED
          BY <5>1, <4>1, <2>0, <3>1, <1>6
      <4>3. load.to = b[n].window[1] - 1 /\ b[n].window[1] \in Nat
        BY <3>3, <4>2, <1>3, <1>7, <1>11, <1>12
      <4>4. l \in b[n].window[1]..b[1].window[2]
        BY <4>1, <4>3, <2>0, <3>1
      <4>5. PICK p \in DOMAIN b : l \in b[p].window[1]..b[p].window[2]
        BY <3>3, <4>4, <1>4 DEF Chain, n, b
      <4> QED
        BY <4>5, <1>3, <1>7
    <3> QED
      BY <3>2, <3>3
  <2> QED
    BY <2>1, <2>2
<1>15. ASSUME classic, NEW t \in DOMAIN operations, t >= ps[Len(ps)].next.o, ClassicRow(t)
       PROVE  \E p \in DOMAIN ps : \E i \in DOMAIN ps[p].rows : ps[p].rows[i].rail = "classic" /\ ps[p].rows[i].n = t
  <2>1. t \in 1..Len(operations) /\ t >= pg.next.o /\ n + 1 \in DOMAIN ps /\ ps[n + 1] = pg
    BY <1>3, <1>7, <1>15, OperationsTyped
  <2>2. CASE \E i \in DOMAIN pg.rows : pg.rows[i].rail = "classic" /\ pg.rows[i].n = t
    BY <2>1, <2>2
  <2>3. CASE Cursor.o # 0 /\ t >= Cursor.o
    <3>1. b # <<>>
      BY <2>3, <1>3
    <3>2. t >= b[n].next.o
      BY <2>3, <3>1, <1>3
    <3>3. PICK p \in DOMAIN b : \E i \in DOMAIN b[p].rows : b[p].rows[i].rail = "classic" /\ b[p].rows[i].n = t
      BY <3>1, <3>2, <1>4, <1>15 DEF Chain, n, b
    <3>4. p \in DOMAIN ps /\ ps[p] = b[p]
      BY <3>3, <1>3, <1>7
    <3> QED
      BY <3>3, <3>4
  <2> QED
    BY <2>1, <2>2, <2>3, <1>1, <1>15
<1>16. Chain(ps, asset)
  BY <1>10, <1>14, <1>15 DEF Chain
<1> QED
  BY <1>3, <1>7, <1>16 DEF PagesChained

\* Ledgers that closed stay as they are.
Later ==
  /\ classic' = classic /\ operations' = operations
  /\ Len(ledgers) <= Len(ledgers') /\ \A l \in 1..Len(ledgers) : ledgers'[l] = ledgers[l]

LEMMA PageStays ==
  ASSUME ActivityTyped, ActivityTyped', Later, NEW pg, NEW a, PageSound(pg, a)
  PROVE  PageSound(pg, a)'
<1>1. /\ pg.rows \in Seq(Row) /\ pg.unread \in Nat
      /\ pg.window[1] \in 1..Len(ledgers) /\ pg.window[2] \in 1..Len(ledgers)
      /\ \A l \in pg.window[1]..pg.window[2] : \A n \in DOMAIN ledgers[l] : Told(EventsOf(l)[n], pg, a)
  BY DEF PageSound
<1>2. Len(ledgers) \in Nat /\ Len(ledgers') \in Nat /\ Len(ledgers) <= Len(ledgers')
  BY DEF ActivityTyped, Later
<1>3. pg.window[1] \in 1..Len(ledgers') /\ pg.window[2] \in 1..Len(ledgers')
  <2>1. PICK a1, b1, m, n : a1 = pg.window[1] /\ b1 = pg.window[2] /\ m = Len(ledgers) /\ n = Len(ledgers')
    OBVIOUS
  <2>2. m \in Nat /\ n \in Nat /\ m <= n /\ a1 \in 1..m /\ b1 \in 1..m
    BY <1>1, <1>2, <2>1
  <2>3. a1 \in 1..n /\ b1 \in 1..n
    BY <2>2
  <2> QED
    BY <2>1, <2>3
<1>4. ASSUME NEW l \in pg.window[1]..pg.window[2] PROVE ledgers'[l] = ledgers[l] /\ EventsOf(l)' = EventsOf(l)
  <2>1. l \in 1..Len(ledgers)
    BY <1>1, <1>2
  <2> QED
    BY <2>1 DEF Later, EventsOf
<1>5. ASSUME NEW l \in pg.window[1]..pg.window[2], NEW n \in DOMAIN ledgers'[l] PROVE Told(EventsOf(l)'[n], pg, a)
  BY <1>1, <1>4
<1> QED
  BY <1>1, <1>2, <1>3, <1>5 DEF PageSound, Told, parseSACTransfer, isSACTransferEvent

LEMMA ChainStays ==
  ASSUME ActivityTyped, ActivityTyped', Later, NEW ps, NEW a, PagesChained(ps, a)
  PROVE  PagesChained(ps, a)'
<1>1. ps \in Seq(Page)
  BY DEF PagesChained
<1>2. ASSUME ps # <<>> PROVE Chain(ps, a)'
  <2>1. Chain(ps, a)
    BY <1>2 DEF PagesChained
  <2>2. \A p \in DOMAIN ps : PageSound(ps[p], a)' /\ ResumeSound(ps[p])'
    <3>1. ASSUME NEW p \in DOMAIN ps PROVE PageSound(ps[p], a)' /\ ResumeSound(ps[p])'
      <4>1. PICK pg : pg = ps[p]
        OBVIOUS
      <4>2. PageSound(pg, a) /\ ResumeSound(pg)
        BY <2>1, <4>1 DEF Chain
      <4>3. PageSound(pg, a)'
        BY <4>2, PageStays
      <4>4. ResumeSound(pg)'
        BY <4>2 DEF ResumeSound, Later
      <4> QED
        BY <4>1, <4>3, <4>4
    <3> QED
      BY <3>1
  <2> QED
    BY <2>1, <2>2 DEF Chain, Later, ClassicRow
<1> QED
  BY <1>1, <1>2 DEF PagesChained

LEMMA GatheredStays ==
  ASSUME ActivityTyped, ActivityTyped', Later, NEW to \in 1..Len(ledgers), NEW from \in 1..to,
         NEW ev, NEW unread, Gathered(ev, from, to, unread)
  PROVE  Gathered(ev, from, to, unread)'
<1>1. Len(ledgers) \in Nat /\ Len(ledgers') \in Nat /\ Len(ledgers) <= Len(ledgers')
  BY DEF ActivityTyped, Later
<1>2. ASSUME NEW l \in from..to PROVE ledgers'[l] = ledgers[l] /\ EventsOf(l)' = EventsOf(l)
  <2>1. l \in 1..Len(ledgers)
    BY <1>1
  <2> QED
    BY <2>1 DEF Later, EventsOf
<1>3. \A i \in DOMAIN ev : ev[i].at \in from..Len(ledgers')
  BY <1>1 DEF Gathered
<1>4. ASSUME NEW l \in from..to, l < unread, NEW n \in DOMAIN ledgers'[l] PROVE \E i \in DOMAIN ev : ev[i] = EventsOf(l)'[n]
  BY <1>2, <1>4 DEF Gathered
<1> QED
  BY <1>3, <1>4 DEF Gathered

LEMMA CloseLedgerKeeps == ActivityInv /\ CloseLedger => ActivityInv'
<1> SUFFICES ASSUME ActivityInv, CloseLedger PROVE ActivityInv'
  OBVIOUS
<1>1. ActivityTyped /\ LoadSound /\ PagesChained(pages, assetCache)
  BY DEF ActivityInv
<1>2. PICK kinds \in Contents : ledgers' = Append(ledgers, kinds)
  BY DEF CloseLedger
<1>3. /\ Len(ledgers) < MaxHead
      /\ UNCHANGED <<classic, operations, assetCache, load, pages, failedLoad>>
  BY DEF CloseLedger
<1>4. /\ ledgers' \in Seq(Contents) /\ Len(ledgers') = Len(ledgers) + 1 /\ Len(ledgers) \in Nat
      /\ \A l \in 1..Len(ledgers) : ledgers'[l] = ledgers[l]
  BY <1>1, <1>2 DEF ActivityTyped
<1>5. ActivityTyped'
  BY <1>1, <1>3, <1>4, Bounds DEF ActivityTyped
<1>6. Later
  BY <1>3, <1>4 DEF Later
<1>7. PICK b, ps, a, ld : b = load.built /\ ps = pages /\ a = assetCache /\ ld = load
  OBVIOUS
<1>8. b = load'.built /\ ps = pages' /\ a = assetCache' /\ ld = load'
  BY <1>3, <1>7
<1>9. PagesChained(ps, a)'
  BY <1>1, <1>5, <1>6, <1>7, ChainStays
<1>10. PagesChained(b, a)'
  BY <1>1, <1>5, <1>6, <1>7, ChainStays DEF LoadSound, LoadRecord
<1>11. LoadSound'
  <2>1. ASSUME load.step = "assemble" PROVE Gathered(load.events, load.from, load.to, load.unread)'
    <3>1. PICK f, t, ev, u : f = load.from /\ t = load.to /\ ev = load.events /\ u = load.unread
      OBVIOUS
    <3>2. f = load'.from /\ t = load'.to /\ ev = load'.events /\ u = load'.unread
      BY <1>3, <3>1
    <3>3. Gathered(ev, f, t, u) /\ f \in 1..t /\ t \in 1..load.latest /\ load.latest \in (Retention + 1)..Len(ledgers)
      BY <1>1, <2>1, <3>1 DEF LoadSound, LoadRecord
    <3>4. t \in 1..Len(ledgers)
      BY <1>4, <3>3, Bounds
    <3>5. Gathered(ev, f, t, u)'
      BY <1>1, <1>5, <1>6, <3>3, <3>4, GatheredStays
    <3> QED
      BY <3>2, <3>5
  <2>2. load.latest \in (Retention + 1)..Len(ledgers) => load.latest \in (Retention + 1)..Len(ledgers')
    BY <1>4, Bounds
  <2>3. /\ load \in LoadRecord
        /\ load.step # "idle" /\ load.built # <<>> => load.built[Len(load.built)].next # NoCursor
        /\ load.step \in {"scan", "widened", "assemble"} =>
             /\ load.latest \in (Retention + 1)..Len(ledgers) /\ load.oldest = load.latest - Retention
             /\ load.from \in 1..load.to /\ load.to \in 1..load.latest
             /\ load.built # <<>> => load.built[1].window[2] <= load.latest
             /\ Carried => load.from = Cursor.e[1] /\ load.to = Cursor.e[2]
             /\ ~Carried => load.to = load.latest /\ (load.step = "scan" => load.from = load.latest - WINDOW_LEDGERS)
        /\ load.step = "assemble" => load.from >= load.oldest
    BY <1>1 DEF LoadSound, LoadRecord
  <2>4. load' = load /\ Cursor' = Cursor /\ Carried' = Carried
    BY <1>3 DEF Cursor, Carried
  <2>5. PagesChained(load.built, assetCache)'
    BY <1>8, <1>10
  <2> QED
    BY <2>1, <2>2, <2>3, <2>4, <2>5 DEF LoadSound, LoadRecord
<1>12. PagesChained(pages, assetCache)'
  BY <1>8, <1>9
<1> QED
  BY <1>5, <1>11, <1>12 DEF ActivityInv

\* Nothing but the fetch moves.
LEMMA FramePages ==
  ASSUME ActivityInv, UNCHANGED <<ledgers, classic, operations>>, assetCache' \in {"absent", "named", "unnamed"}
  PROVE  ActivityTyped' /\ \A ps, a : PagesChained(ps, a) => PagesChained(ps, a)'
<1>1. ActivityTyped /\ ActivityTyped'
  BY DEF ActivityInv, ActivityTyped
<1>2. Later
  BY <1>1 DEF Later, ActivityTyped
<1> QED
  BY <1>1, <1>2, ChainStays

LEMMA ReadHealthKeeps == ActivityInv /\ ReadHealth => ActivityInv'
<1> SUFFICES ASSUME ActivityInv, ReadHealth PROVE ActivityInv'
  OBVIOUS
<1>1. ActivityTyped /\ LoadSound /\ PagesChained(pages, assetCache)
  BY DEF ActivityInv
<1>2. /\ load.step = "health"
      /\ UNCHANGED <<ledgers, classic, operations, assetCache, pages, failedLoad>>
      /\ load' = [load EXCEPT !.step = "scan", !.latest = Len(ledgers), !.oldest = Oldest(Len(ledgers)),
                  !.from = IF Carried THEN Cursor.e[1] ELSE MaxOf(Oldest(Len(ledgers)), Len(ledgers) - WINDOW_LEDGERS),
                  !.to = IF Carried THEN Cursor.e[2] ELSE Len(ledgers)]
  BY DEF ReadHealth
<1>3. PICK ps, b, a : ps = pages /\ b = load.built /\ a = assetCache
  OBVIOUS
<1>4. ActivityTyped' /\ PagesChained(ps, a)' /\ PagesChained(b, a)'
  BY <1>1, <1>2, <1>3, FramePages DEF LoadSound, ActivityTyped, LoadRecord
<1>5. /\ load \in LoadRecord
      /\ b # <<>> => b[Len(b)].next # NoCursor
  BY <1>1, <1>2, <1>3 DEF LoadSound, LoadRecord
<1>6. /\ Len(ledgers) \in Nat /\ Retention \in Nat /\ WINDOW_LEDGERS \in Nat \ {0} /\ Retention > 2 * WINDOW_LEDGERS
      /\ Len(ledgers) \in (Retention + 1)..Len(ledgers)
  BY <1>1, Bounds DEF ActivityTyped
<1> DEFINE from == IF Carried THEN Cursor.e[1] ELSE MaxOf(Oldest(Len(ledgers)), Len(ledgers) - WINDOW_LEDGERS)
           to == IF Carried THEN Cursor.e[2] ELSE Len(ledgers)
<1>7. from \in 1..to /\ to \in 1..Len(ledgers) /\ (~Carried => from = Len(ledgers) - WINDOW_LEDGERS /\ to = Len(ledgers))
  <2>1. CASE Carried
    <3>1. b # <<>> /\ Chain(b, a) /\ Len(b) \in DOMAIN b /\ Cursor = b[Len(b)].next
      BY <1>1, <1>2, <1>3, <2>1, CursorSound
    <3>2. ResumeSound(b[Len(b)]) /\ PageSound(b[Len(b)], a) /\ Cursor.e # <<>>
      BY <3>1, <2>1 DEF Chain, Carried
    <3>3. from \in 1..to /\ to = b[Len(b)].window[1] - 1
      BY <3>1, <3>2, <2>1 DEF ResumeSound
    <3>4. b[Len(b)].window[1] \in 1..Len(ledgers)
      BY <3>2 DEF PageSound
    <3> HIDE DEF from, to
    <3>6. PICK u, v, x, z : u = from /\ v = to /\ x = b[Len(b)].window[1] /\ z = Len(ledgers)
      OBVIOUS
    <3>7. u \in 1..v /\ v = x - 1 /\ x \in 1..z /\ z \in Nat
      BY <3>3, <3>4, <3>6, <1>6, Zenon
    <3>8. u \in 1..v /\ v \in 1..z
      BY <3>7
    <3>9. from \in 1..to /\ to \in 1..Len(ledgers)
      BY <3>6, <3>8, Zenon
    <3> QED
      BY <3>9, <2>1
  <2>2. CASE ~Carried
    <3>1. to = Len(ledgers) /\ from = MaxOf(Len(ledgers) - Retention, Len(ledgers) - WINDOW_LEDGERS)
      BY <2>2 DEF Oldest
    <3>2. from = Len(ledgers) - WINDOW_LEDGERS
      BY <3>1, <1>6 DEF MaxOf
    <3> HIDE DEF from, to
    <3> QED
      BY <3>1, <3>2, <1>6
  <2> QED
    BY <2>1, <2>2
<1>8. /\ load'.step = "scan" /\ load'.latest = Len(ledgers) /\ load'.oldest = Len(ledgers) - Retention
      /\ load'.from = from /\ load'.to = to /\ load'.built = b /\ load'.events = load.events
      /\ load'.want = load.want /\ load'.unread = load.unread
      /\ load' \in LoadRecord
  <2>1. from \in Nat /\ to \in Nat /\ Oldest(Len(ledgers)) \in Nat /\ Oldest(Len(ledgers)) = Len(ledgers) - Retention
    BY <1>6, <1>7 DEF Oldest
  <2> HIDE DEF from, to
  <2>2. load' = [load EXCEPT !.step = "scan", !.latest = Len(ledgers), !.oldest = Oldest(Len(ledgers)),
                  !.from = from, !.to = to]
    BY <1>2 DEF from, to
  <2> QED
    BY <2>1, <2>2, <1>3, <1>5, <1>6 DEF LoadRecord
<1>9. Cursor' = Cursor /\ Carried' = Carried
  BY <1>3, <1>8 DEF Cursor, Carried
<1>10. b # <<>> => b[1].window[2] <= Len(ledgers)
  <2>1. ASSUME b # <<>> PROVE b[1].window[2] \in 1..Len(ledgers)
    <3>1. Chain(b, a) /\ 1 \in DOMAIN b
      BY <1>1, <1>2, <1>3, <2>1, CursorSound
    <3> QED
      BY <3>1 DEF Chain, PageSound
  <2> QED
    BY <2>1, <1>6
<1>11. LoadSound'
  <2>1. PagesChained(load.built, assetCache)'
    BY <1>2, <1>3, <1>4, <1>8
  <2>2. Carried => from = Cursor.e[1] /\ to = Cursor.e[2]
    OBVIOUS
  <2>3. ledgers' = ledgers
    BY <1>2
  <2> HIDE DEF from, to
  <2> QED
    BY <2>1, <2>2, <2>3, <1>5, <1>6, <1>7, <1>8, <1>9, <1>10 DEF LoadSound, LoadRecord
<1> QED
  BY <1>2, <1>3, <1>4, <1>11 DEF ActivityInv

LEMMA ScanWindowKeeps == ActivityInv /\ ScanWindow => ActivityInv'
<1> SUFFICES ASSUME ActivityInv, ScanWindow PROVE ActivityInv'
  OBVIOUS
<1>1. ActivityTyped /\ LoadSound /\ PagesChained(pages, assetCache)
  BY DEF ActivityInv
<1> DEFINE wider == MaxOf(load.oldest, load.from - WINDOW_LEDGERS)
           read(scan) == [load EXCEPT !.events = scan.events, !.step = "assemble", !.unread = scan.unread]
<1>2. /\ load.step \in {"scan", "widened"} /\ load.from >= Oldest(Len(ledgers))
      /\ UNCHANGED <<ledgers, classic, operations, assetCache, pages, failedLoad>>
  BY DEF ScanWindow
<1>0. PICK scan \in Scans(load.from, load.to) :
        load' = IF load.step = "scan" /\ TooQuiet(scan.events)
                THEN [read(scan) EXCEPT !.from = wider, !.to = load.latest,
                                        !.step = IF wider <= load.oldest THEN "assemble" ELSE "widened"]
                ELSE read(scan)
  BY Zenon DEF ScanWindow
<1>3. PICK ps, b, a : ps = pages /\ b = load.built /\ a = assetCache
  OBVIOUS
<1>4. ActivityTyped' /\ PagesChained(ps, a)' /\ PagesChained(b, a)'
  BY <1>1, <1>2, <1>3, FramePages DEF LoadSound, ActivityTyped, LoadRecord
<1>5. /\ load \in LoadRecord
      /\ b # <<>> => b[Len(b)].next # NoCursor
      /\ load.latest \in (Retention + 1)..Len(ledgers) /\ load.oldest = load.latest - Retention
      /\ load.from \in 1..load.to /\ load.to \in 1..load.latest
      /\ b # <<>> => b[1].window[2] <= load.latest
      /\ Carried => load.from = Cursor.e[1] /\ load.to = Cursor.e[2]
      /\ ~Carried => load.to = load.latest /\ (load.step = "scan" => load.from = load.latest - WINDOW_LEDGERS)
  BY <1>1, <1>2, <1>3 DEF LoadSound, LoadRecord
<1>6. /\ Len(ledgers) \in Nat /\ Retention \in Nat /\ WINDOW_LEDGERS \in Nat \ {0} /\ Retention > 2 * WINDOW_LEDGERS
      /\ load.latest \in Nat /\ load.from \in Nat /\ load.to \in Nat /\ load.oldest \in Nat
      /\ load.to \in 1..Len(ledgers) /\ load.from >= load.oldest
  <2>1. Len(ledgers) \in Nat /\ Retention \in Nat /\ WINDOW_LEDGERS \in Nat \ {0} /\ Retention > 2 * WINDOW_LEDGERS
    BY <1>1, Bounds DEF ActivityTyped
  <2>2. load.latest \in Nat /\ load.from \in Nat /\ load.to \in Nat /\ load.oldest \in Nat
    BY <1>5 DEF LoadRecord
  <2>3. load.to \in 1..Len(ledgers)
    BY <2>1, <2>2, <1>5
  <2>4. load.from >= load.oldest
    BY <2>1, <2>2, <1>2, <1>5 DEF Oldest
  <2> QED
    BY <2>1, <2>2, <2>3, <2>4
<1>7. PICK ev, c : ev = scan.events /\ c = scan.unread
  OBVIOUS
<1>8. Gathered(ev, load.from, load.to, c)
  BY <1>0, <1>1, <1>5, <1>6, <1>7, ScanGathers
<1>9. ev \in Seq(Row) /\ c \in Nat
  BY <1>8 DEF Gathered
<1> DEFINE rd == read(scan)
<1>10. rd = [load EXCEPT !.events = ev, !.step = "assemble", !.unread = c]
  BY <1>7
<1> DEFINE widens == load.step = "scan" /\ TooQuiet(ev)
<1>11. CASE widens
  <2>1. ~Carried /\ load.step = "scan"
    BY <1>11 DEF TooQuiet
  <2>2. load.to = load.latest /\ load.from = load.latest - WINDOW_LEDGERS
    BY <2>1, <1>5
  <2>3. wider = load.latest - 2 * WINDOW_LEDGERS /\ wider > load.oldest /\ wider \in 1..load.latest
    BY <2>2, <1>5, <1>6, SMTT(30) DEF MaxOf
  <2>4. load' = [rd EXCEPT !.from = wider, !.to = load.latest, !.step = "widened"]
    <3>1. load' = [rd EXCEPT !.from = wider, !.to = load.latest,
                               !.step = IF wider <= load.oldest THEN "assemble" ELSE "widened"]
      BY <1>0, <1>7, <1>11
    <3>2. ~(wider <= load.oldest)
      BY <2>3, <1>6
    <3> HIDE DEF rd, wider
    <3> QED
      BY <3>1, <3>2
  <2> HIDE DEF rd, wider
  <2>5. /\ load'.step = "widened" /\ load'.from = wider /\ load'.to = load.latest /\ load'.latest = load.latest
        /\ load'.oldest = load.oldest /\ load'.built = b /\ load' \in LoadRecord
    <3>1. load' = [load EXCEPT !.events = ev, !.unread = c, !.from = wider, !.to = load.latest, !.step = "widened"]
      BY <2>4, <1>5, <1>10 DEF LoadRecord
    <3>2. wider \in Nat /\ load.latest \in Nat
      BY <2>3, <1>6
    <3> QED
      BY <3>1, <3>2, <1>3, <1>5, <1>9 DEF LoadRecord
  <2>6. Cursor' = Cursor /\ Carried' = Carried
    BY <1>3, <2>5 DEF Cursor, Carried
  <2>7. LoadSound'
    <3>1. PagesChained(load.built, assetCache)'
      BY <1>2, <1>3, <1>4, <2>5
    <3>2. ledgers' = ledgers
      BY <1>2
    <3> QED
      BY <3>1, <3>2, <2>1, <2>3, <2>5, <2>6, <1>5, <1>6 DEF LoadSound, LoadRecord
  <2> QED
    BY <2>7, <1>2, <1>3, <1>4 DEF ActivityInv
<1>12. CASE ~widens
  <2>1. load' = rd
    BY <1>0, <1>7, <1>12
  <2> HIDE DEF rd
  <2>2. /\ load'.step = "assemble" /\ load'.from = load.from /\ load'.to = load.to /\ load'.latest = load.latest
        /\ load'.oldest = load.oldest /\ load'.built = b /\ load'.events = ev /\ load'.unread = c /\ load' \in LoadRecord
    BY <2>1, <1>3, <1>5, <1>9, <1>10 DEF LoadRecord
  <2>3. Cursor' = Cursor /\ Carried' = Carried
    BY <1>3, <2>2 DEF Cursor, Carried
  <2>4. LoadSound'
    <3>1. PagesChained(load.built, assetCache)'
      BY <1>2, <1>3, <1>4, <2>2
    <3>2. ledgers' = ledgers
      BY <1>2
    <3>3. PICK f, t : f = load.from /\ t = load.to
      OBVIOUS
    <3>4. Gathered(ev, f, t, c)'
      BY <1>8, <3>2, <3>3 DEF Gathered, EventsOf
    <3>5. Gathered(load.events, load.from, load.to, load.unread)'
      BY <2>2, <3>3, <3>4
    <3> QED
      BY <3>1, <3>2, <3>5, <2>2, <2>3, <1>5, <1>6 DEF LoadSound, LoadRecord
  <2> QED
    BY <2>4, <1>2, <1>3, <1>4 DEF ActivityInv
<1> QED
  BY <1>11, <1>12

LEMMA IdleSound ==
  ASSUME ActivityInv, UNCHANGED <<ledgers, classic, operations>>, assetCache' \in {"absent", "named", "unnamed"},
         load' = NoLoad
  PROVE  LoadSound'
<1>1. Len(ledgers) \in Nat
  BY DEF ActivityInv, ActivityTyped
<1>2. load' \in LoadRecord /\ load'.step = "idle" /\ load'.built = <<>>
  BY DEF NoLoad, LoadRecord
<1>3. PagesChained(load.built, assetCache)'
  BY <1>2 DEF PagesChained
<1> QED
  BY <1>2, <1>3 DEF LoadSound, LoadRecord

\* A fetch may begin, or go on, after pages that are not the last.
LEMMA BeginSound ==
  ASSUME ActivityInv, UNCHANGED <<ledgers, classic, operations>>, assetCache' \in {"absent", "named", "unnamed"},
         NEW want \in Nat, NEW ps, PagesChained(ps, assetCache'), ps # <<>> => ps[Len(ps)].next # NoCursor,
         load' = [NoLoad EXCEPT !.step = "health", !.want = want, !.built = ps]
  PROVE  LoadSound'
<1>1. ps \in Seq(Page)
  BY DEF PagesChained
<1>2. load' \in LoadRecord /\ load'.step = "health" /\ load'.built = ps
  <2>1. NoLoad \in LoadRecord
    BY DEF NoLoad, LoadRecord
  <2> QED
    BY <2>1, <1>1 DEF LoadRecord
<1>3. PICK a : a = assetCache'
  OBVIOUS
<1>4. PagesChained(ps, a)'
  BY <1>3, FramePages
<1>5. PagesChained(load.built, assetCache)'
  BY <1>2, <1>3, <1>4
<1> QED
  BY <1>2, <1>5 DEF LoadSound, LoadRecord

LEMMA AssembleKeeps == ActivityInv /\ Assemble => ActivityInv'
<1> SUFFICES ASSUME ActivityInv, Assemble PROVE ActivityInv'
  OBVIOUS
<1>1. ActivityTyped /\ LoadSound /\ PagesChained(pages, assetCache)
  BY DEF ActivityInv
<1> DEFINE ops == IF classic THEN OperationsPage(Cursor.o) ELSE <<>>
           to == ResumeBefore(load.events, load.from, load.oldest)
           made(asset) == [rows |-> ByTime(SorobanRows(load.events, asset) \o ClassicRows(ops)),
                           next |-> NextCursor(to, load.oldest, ops),
                           unread |-> load.unread, window |-> <<to + 1, load.to>>]
<1>2. load.step = "assemble" /\ UNCHANGED <<ledgers, classic, operations>>
  BY DEF Assemble
<1>3. PICK asset \in ResolvedAs(load.events) :
        /\ assetCache' = asset
        /\ IF Len(Append(load.built, made(asset))) < load.want /\ made(asset).next # NoCursor
           THEN /\ load' = [NoLoad EXCEPT !.step = "health", !.want = load.want, !.built = Append(load.built, made(asset))]
                /\ UNCHANGED <<pages, failedLoad>>
           ELSE load' = NoLoad /\ pages' = Append(load.built, made(asset)) /\ failedLoad' = FALSE
  BY Zenon DEF Assemble
<1>4. PICK pg : pg = made(asset)
  OBVIOUS
<1>5. PICK o : o = ops
  OBVIOUS
<1>6. NewPage(pg, asset, o)
  BY <1>4, <1>5 DEF NewPage
<1>7. PICK b : b = Append(load.built, pg)
  OBVIOUS
<1>8. PagesChained(b, asset) /\ Len(b) # 0 /\ b[Len(b)] = pg
  BY <1>1, <1>2, <1>3, <1>5, <1>6, <1>7, ChainGrows
<1>9. /\ asset \in {"absent", "named", "unnamed"} /\ (assetCache = "unnamed" => asset = "unnamed")
      /\ assetCache' = asset
  BY <1>1, <1>3, AssetResolved
<1>10. ActivityTyped' /\ \A ps, a : PagesChained(ps, a) => PagesChained(ps, a)'
  BY <1>2, <1>9, FramePages
<1>11. \/ load' = [NoLoad EXCEPT !.step = "health", !.want = load.want, !.built = b] /\ pages' = pages /\ pg.next # NoCursor
       \/ load' = NoLoad /\ pages' = b
  BY <1>3, <1>4, <1>7
<1> HIDE DEF made, ops, to
<1>12. PICK a, ps : a = assetCache /\ ps = pages
  OBVIOUS
<1>13. PagesChained(ps, asset)
  BY <1>1, <1>9, <1>12, ToldStays
<1>14. PagesChained(ps, asset)' /\ PagesChained(b, asset)'
  BY <1>8, <1>10, <1>13
<1>15. CASE load' = [NoLoad EXCEPT !.step = "health", !.want = load.want, !.built = b] /\ pages' = pages /\ pg.next # NoCursor
  <2>1. PICK want : want = load.want
    OBVIOUS
  <2>2. want \in Nat
    BY <1>1, <2>1 DEF LoadSound, LoadRecord
  <2>3. PagesChained(b, assetCache') /\ (b # <<>> => b[Len(b)].next # NoCursor)
    BY <1>8, <1>9, <1>15
  <2>4. load' = [NoLoad EXCEPT !.step = "health", !.want = want, !.built = b]
    BY <1>15, <2>1
  <2>5. assetCache' \in {"absent", "named", "unnamed"}
    BY <1>9
  <2>6. LoadSound'
    BY <1>2, <2>2, <2>3, <2>4, <2>5, BeginSound, Zenon
  <2>7. PagesChained(pages, assetCache)'
    BY <1>9, <1>12, <1>14, <1>15
  <2> QED
    BY <1>10, <2>6, <2>7 DEF ActivityInv
<1>16. CASE load' = NoLoad /\ pages' = b
  <2>1. LoadSound'
    BY <1>2, <1>9, <1>16, IdleSound
  <2>2. PagesChained(pages, assetCache)'
    BY <1>9, <1>14, <1>16
  <2> QED
    BY <1>10, <2>1, <2>2 DEF ActivityInv
<1> QED
  BY <1>11, <1>15, <1>16

LEMMA PagesKept ==
  ASSUME ActivityInv, UNCHANGED <<ledgers, classic, operations, assetCache, pages>>
  PROVE  ActivityTyped' /\ PagesChained(pages, assetCache)' /\ assetCache' \in {"absent", "named", "unnamed"}
<1>1. assetCache' \in {"absent", "named", "unnamed"}
  BY DEF ActivityInv, ActivityTyped
<1>2. PICK ps, a : ps = pages /\ a = assetCache
  OBVIOUS
<1>3. ActivityTyped' /\ PagesChained(ps, a)'
  BY <1>1, <1>2, FramePages DEF ActivityInv
<1> QED
  BY <1>1, <1>2, <1>3

LEMMA FetchFailsKeeps == ActivityInv /\ FetchFails => ActivityInv'
<1> SUFFICES ASSUME ActivityInv, FetchFails PROVE ActivityInv'
  OBVIOUS
<1>1. load' = NoLoad /\ UNCHANGED <<ledgers, classic, operations, assetCache, pages>>
  BY DEF FetchFails
<1>2. ActivityTyped' /\ PagesChained(pages, assetCache)' /\ assetCache' \in {"absent", "named", "unnamed"}
  BY <1>1, PagesKept
<1> QED
  BY <1>1, <1>2, IdleSound DEF ActivityInv

LEMMA LoadOlderKeeps == ActivityInv /\ LoadOlder => ActivityInv'
<1> SUFFICES ASSUME ActivityInv, LoadOlder PROVE ActivityInv'
  OBVIOUS
<1>1. /\ load' = [NoLoad EXCEPT !.step = "health", !.want = Len(pages) + 1, !.built = pages]
      /\ UNCHANGED <<ledgers, classic, operations, assetCache, pages>>
      /\ Last(pages).next # NoCursor
  BY DEF LoadOlder, Begin, HasNextPage
<1>2. ActivityTyped' /\ PagesChained(pages, assetCache)' /\ assetCache' \in {"absent", "named", "unnamed"}
  BY <1>1, PagesKept
<1>3. PICK ps : ps = pages
  OBVIOUS
<1>4. PICK want : want = Len(pages) + 1
  OBVIOUS
<1>5. PagesChained(ps, assetCache') /\ want \in Nat
  BY <1>1, <1>3, <1>4 DEF ActivityInv, PagesChained
<1>6. ps[Len(ps)].next # NoCursor
  BY <1>1, <1>3 DEF Last
<1>7. load' = [NoLoad EXCEPT !.step = "health", !.want = want, !.built = ps]
  BY <1>1, <1>3, <1>4
<1>8. LoadSound'
  BY <1>1, <1>2, <1>5, <1>6, <1>7, BeginSound, Zenon
<1> QED
  BY <1>2, <1>8 DEF ActivityInv

LEMMA RefetchKeeps == ActivityInv /\ Refetch => ActivityInv'
<1> SUFFICES ASSUME ActivityInv, Refetch PROVE ActivityInv'
  OBVIOUS
<1>1. /\ load' = [NoLoad EXCEPT !.step = "health", !.want = MaxOf(1, Len(pages)), !.built = <<>>]
      /\ UNCHANGED <<ledgers, classic, operations, assetCache, pages>>
  BY DEF Refetch, Begin
<1>2. ActivityTyped' /\ PagesChained(pages, assetCache)' /\ assetCache' \in {"absent", "named", "unnamed"}
  BY <1>1, PagesKept
<1>3. PICK want : want = MaxOf(1, Len(pages))
  OBVIOUS
<1>4. want \in Nat
  BY <1>3 DEF ActivityInv, PagesChained, MaxOf
<1>5. PICK ps : ps = <<>>
  OBVIOUS
<1>6. PagesChained(ps, assetCache') /\ ps \in Seq(Page)
  BY <1>5 DEF PagesChained
<1>7. load' = [NoLoad EXCEPT !.step = "health", !.want = want, !.built = ps]
  BY <1>1, <1>3, <1>5
<1>8. LoadSound'
  BY <1>1, <1>2, <1>4, <1>5, <1>6, <1>7, BeginSound, Zenon
<1> QED
  BY <1>2, <1>8 DEF ActivityInv

LEMMA ActivityStarts == ActivityInit => ActivityInv
<1> SUFFICES ASSUME ActivityInit PROVE ActivityInv
  OBVIOUS
<1>1. /\ ledgers \in [1..(Retention + 1) -> Contents] /\ classic \in BOOLEAN
      /\ operations \in IF classic THEN Operations ELSE {<<>>}
      /\ assetCache = "absent" /\ load = NoLoad /\ pages = <<>>
  BY DEF ActivityInit
<1>2. ledgers \in Seq(Contents) /\ Len(ledgers) = Retention + 1
  BY <1>1, Bounds, SeqDef
<1>3. ActivityTyped
  BY <1>1, <1>2, Bounds DEF ActivityTyped
<1>4. load \in LoadRecord /\ load.step = "idle" /\ load.built = <<>>
  BY <1>1 DEF NoLoad, LoadRecord
<1>5. PagesChained(load.built, assetCache) /\ PagesChained(pages, assetCache)
  BY <1>1, <1>4 DEF PagesChained
<1>6. LoadSound
  BY <1>4, <1>5 DEF LoadSound, LoadRecord
<1> QED
  BY <1>3, <1>5, <1>6 DEF ActivityInv

LEMMA ActivityStutters == ActivityInv /\ UNCHANGED activityVars => ActivityInv'
<1> SUFFICES ASSUME ActivityInv, UNCHANGED activityVars PROVE ActivityInv'
  OBVIOUS
<1>1. UNCHANGED <<ledgers, classic, operations, assetCache, load, pages>>
  BY DEF activityVars
<1>2. ActivityTyped' /\ PagesChained(pages, assetCache)'
  BY <1>1, PagesKept
<1>3. PICK b, a : b = load.built /\ a = assetCache
  OBVIOUS
<1>4. PagesChained(b, a)'
  BY <1>1, <1>3, FramePages DEF ActivityInv, ActivityTyped, LoadSound, LoadRecord
<1>5. PagesChained(load.built, assetCache)'
  BY <1>1, <1>3, <1>4
<1>6. ActivityTyped /\ LoadSound /\ Len(ledgers) \in Nat
  BY DEF ActivityInv, ActivityTyped
<1>8. ASSUME load.step = "assemble" PROVE Gathered(load.events, load.from, load.to, load.unread)'
  <2>1. Gathered(load.events, load.from, load.to, load.unread)
    BY <1>6, <1>8 DEF LoadSound, LoadRecord
  <2> QED
    BY <1>1, <2>1 DEF Gathered, EventsOf
<1>9. load' = load /\ ledgers' = ledgers /\ Cursor' = Cursor /\ Carried' = Carried
  BY <1>1 DEF Cursor, Carried
<1>10. LoadSound'
  BY <1>5, <1>6, <1>8, <1>9 DEF LoadSound, LoadRecord
<1> QED
  BY <1>2, <1>10 DEF ActivityInv

LEMMA ActivityNextKeeps == ActivityInv /\ ActivityNext => ActivityInv'
  BY CloseLedgerKeeps, ReadHealthKeeps, ScanWindowKeeps, AssembleKeeps, FetchFailsKeeps, LoadOlderKeeps,
     RefetchKeeps DEF ActivityNext

LEMMA ActivityStep == ActivityInv /\ [MCNext]_clientVars => ActivityInv'
<1> SUFFICES ASSUME ActivityInv, [MCNext]_clientVars PROVE ActivityInv'
  OBVIOUS
<1>1. ActivityNext \/ UNCHANGED activityVars
  BY DEF MCNext, clientVars
<1> QED
  BY <1>1, ActivityNextKeeps, ActivityStutters

-----------------------------------------------------------------------------
\* The rows of the pages, one page after the other.
LEMMA RowsListed ==
  ASSUME ActivityInv
  PROVE  /\ pages \in Seq(Page) /\ AllRows \in Seq(Row)
         /\ \A p \in DOMAIN pages : \A q \in DOMAIN pages[p].rows : \E i \in DOMAIN AllRows : AllRows[i] = pages[p].rows[q]
<1> DEFINE seqs == [p \in DOMAIN pages |-> pages[p].rows]
<1>1. pages \in Seq(Page)
  BY DEF ActivityInv, PagesChained
<1>2. ASSUME NEW p \in DOMAIN pages PROVE pages[p].rows \in Seq(Row)
  <2>1. pages[p] \in Page
    BY <1>1
  <2> QED
    BY <2>1 DEF Page
<1>3. seqs \in Seq(Seq(Row))
  <2>1. seqs \in [1..Len(pages) -> Seq(Row)] /\ Len(pages) \in Nat
    BY <1>1, <1>2
  <2> QED
    BY <2>1, SeqDef
<1>4. AllRows \in Seq(Row) /\ Flat(seqs, AllRows)
  BY <1>3, FlattenKeeps DEF AllRows
<1>5. DOMAIN seqs = DOMAIN pages /\ \A p \in DOMAIN pages : seqs[p] = pages[p].rows
  OBVIOUS
<1> HIDE DEF seqs
<1>6. ASSUME NEW p \in DOMAIN pages, NEW q \in DOMAIN pages[p].rows
      PROVE  \E i \in DOMAIN AllRows : AllRows[i] = pages[p].rows[q]
  BY <1>4, <1>5 DEF Flat
<1> QED
  BY <1>1, <1>4, <1>6, Zenon

LEMMA ActivityComplete == ActivityInv => MissingOnlyUnread /\ OperationsComplete
<1> SUFFICES ASSUME ActivityInv, pages # <<>> PROVE MissingOnlyUnread /\ OperationsComplete
  BY DEF MissingOnlyUnread, OperationsComplete
<1>1. Chain(pages, assetCache) /\ Last(pages) = pages[Len(pages)]
  BY DEF ActivityInv, PagesChained, Last
<1>2. ASSUME NEW l \in Last(pages).window[1]..pages[1].window[2], NEW n \in DOMAIN ledgers[l]
      PROVE  \/ ~parseSACTransfer(EventsOf(l)[n]) \/ EventsOf(l)[n] \in ToSet(AllRows)
             \/ EventsOf(l)[n].kind = "token" /\ assetCache = "unnamed"
             \/ \E p \in DOMAIN pages : l \in pages[p].unread..pages[p].window[2]
  <2>1. PICK p \in DOMAIN pages : l \in pages[p].window[1]..pages[p].window[2]
    BY <1>1, <1>2 DEF Chain
  <2>2. PICK e : e = EventsOf(l)[n]
    OBVIOUS
  <2>3. Told(e, pages[p], assetCache)
    BY <1>1, <1>2, <2>1, <2>2 DEF Chain, PageSound
  <2>4. ASSUME NEW i \in DOMAIN pages[p].rows, pages[p].rows[i] = e PROVE e \in ToSet(AllRows)
    <3>1. PICK k \in DOMAIN AllRows : AllRows[k] = pages[p].rows[i]
      BY <2>1, <2>4, RowsListed
    <3> QED
      BY <2>4, <3>1 DEF ToSet
  <2>5. ASSUME e.at >= pages[p].unread PROVE l \in pages[p].unread..pages[p].window[2]
    <3>1. /\ pages[p].window[1] \in 1..Len(ledgers) /\ pages[p].window[2] \in 1..Len(ledgers) /\ pages[p].unread \in Nat
          /\ Len(ledgers) \in Nat
      BY <1>1, <2>1 DEF Chain, PageSound, ActivityInv, ActivityTyped
    <3>2. PICK v, w, u : v = pages[p].window[1] /\ w = pages[p].window[2] /\ u = pages[p].unread
      OBVIOUS
    <3>3. v \in 1..Len(ledgers) /\ w \in 1..Len(ledgers) /\ u \in Nat /\ l \in v..w
      BY <2>1, <3>1, <3>2
    <3>4. l \in 1..Len(ledgers) /\ l \in Nat /\ w \in Nat /\ l <= w
      BY <3>1, <3>3
    <3>5. e.at = l
      BY <1>2, <2>2, <3>4, EventsTyped DEF ActivityInv
    <3>6. l \in u..w
      BY <2>5, <3>2, <3>3, <3>4, <3>5
    <3> QED
      BY <3>2, <3>6
  <2> QED
    BY <2>1, <2>2, <2>3, <2>4, <2>5 DEF Told
<1>3. ASSUME classic, NEW t \in DOMAIN operations, t >= Last(pages).next.o, ClassicRow(t)
      PROVE  \E i \in DOMAIN AllRows : AllRows[i].rail = "classic" /\ AllRows[i].n = t
  <2>1. PICK p \in DOMAIN pages : \E i \in DOMAIN pages[p].rows :
               pages[p].rows[i].rail = "classic" /\ pages[p].rows[i].n = t
    BY <1>1, <1>3 DEF Chain
  <2>2. PICK i \in DOMAIN pages[p].rows : pages[p].rows[i].rail = "classic" /\ pages[p].rows[i].n = t
    BY <2>1
  <2>3. PICK k \in DOMAIN AllRows : AllRows[k] = pages[p].rows[i]
    BY <2>1, <2>2, RowsListed
  <2> QED
    BY <2>2, <2>3
<1>4. MissingOnlyUnread
  BY <1>2 DEF MissingOnlyUnread
<1>5. OperationsComplete
  BY <1>3 DEF OperationsComplete
<1> QED
  BY <1>4, <1>5

\* What the panel tells of the history is so: between the head it saw and the point it would go on from, a
\* transfer is missing only where a scan stopped before its window's end, or without its asset's name; and
\* every classic operation down to the cursor is there (history.ts, activity.ts).
THEOREM ActivityIsShownTrue == MCSpec => []ActivityTrue
<1>1. MCInit => ActivityInv
  BY ActivityStarts DEF MCInit
<1>2. ActivityInv => ActivityTrue
  BY ActivityComplete DEF ActivityTrue
<1> QED
  BY <1>1, <1>2, ActivityStep, PTL DEF MCSpec

\* What a page tells is so: of the agent keys and signers (agent-mint.ts,
\* signers-card.tsx), of the provenance mode and the verifications listed
\* (provenance-card.tsx, verify/page.tsx) and of the account's history.
THEOREM PagesTellTrue == MCSpec => []PagesTellTheTruth
  BY PageTellsOfSigners, ProvenanceIsShownTrue, ActivityIsShownTrue, PTL DEF PagesTellTheTruth
=============================================================================
