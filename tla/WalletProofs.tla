---------------------------- MODULE WalletProofs ----------------------------
(***************************************************************************)
(* The parts of MCWallet, each for every value of its constants.           *)
(*                                                                         *)
(* The spend budget: a line never has more than maxCount rows in any       *)
(* window, and whoever is told ok has a row.  The row committed last in a  *)
(* window counted all the others in it, because its own window began no    *)
(* later, and nothing of its line was committed between its check and its  *)
(* commit.                                                                 *)
(*                                                                         *)
(* The accounts, with creations, sessions, signers and the cache in one    *)
(* process: no wallet without its account, no creation that was not        *)
(* charged, and nothing stale that comes back.                             *)
(***************************************************************************)
EXTENDS WalletAccounts, SpendBudget, FiniteSetTheorems, WellFoundedInduction, TLAPS

\* The rows a call will have counted, and the room it saw, hold until it commits.
PendingInv ==
  \A c \in Caller :
    /\ pc[c] \in {"waiting", "locked", "inserted"} => windowStart[c] + windowMs <= at[c]
    /\ pc[c] = "inserted" =>
         Cardinality(Recent(LineOf[c], windowStart[c])) + 1 <= maxCount[LineOf[c]]

\* Rows belong to calls that are over, and every grant has one.
RowInv ==
  /\ \A c \in ledger : pc[c] \in {"ok", "threw"}
  /\ NoUnmeteredGrant

\* CountCeiling for the windows that begin anywhere.
EveryWindow ==
  \A line \in Line : \A x \in Int : Cardinality(Window(line, x)) <= maxCount[line]

BudgetInv == TypeOK /\ PendingInv /\ RowInv /\ EveryWindow

LEMMA FiniteRows ==
  ASSUME ledger \subseteq Caller
  PROVE  /\ IsFiniteSet(ledger)
         /\ \A line, x : IsFiniteSet(Window(line, x)) /\ IsFiniteSet(Recent(line, x))
<1>1. IsFiniteSet(ledger)
  BY BudgetConstants, FS_Subset
<1>2. ASSUME NEW line, NEW x
      PROVE  IsFiniteSet(Window(line, x)) /\ IsFiniteSet(Recent(line, x))
  <2>1. Window(line, x) \subseteq ledger /\ Recent(line, x) \subseteq ledger
    BY DEF Window, Recent
  <2> QED
    BY <2>1, <1>1, FS_Subset
<1> QED
  BY <1>1, <1>2

LEMMA InitBudget == Init => BudgetInv
<1> SUFFICES ASSUME Init PROVE BudgetInv
  OBVIOUS
<1>1. TypeOK
  BY BudgetConstants DEF Init, TypeOK, Phases, Holds
<1>2. PendingInv /\ RowInv
  BY DEF Init, PendingInv, RowInv, NoUnmeteredGrant
<1>3. EveryWindow
  <2> SUFFICES ASSUME NEW line \in Line, NEW x \in Int
               PROVE  Cardinality(Window(line, x)) <= maxCount[line]
    BY DEF EveryWindow
  <2>1. Window(line, x) = {}
    BY DEF Init, Window
  <2>2. Cardinality({}) = 0
    BY FS_EmptySet
  <2> QED
    BY <2>1, <2>2, BudgetConstants
<1> QED
  BY <1>1, <1>2, <1>3 DEF BudgetInv

\* A step that leaves the rows alone leaves every window alone.
LEMMA SameRows ==
  ASSUME TypeOK, ledger' = ledger, \A c \in ledger : at'[c] = at[c]
  PROVE  /\ \A line, x : Window(line, x)' = Window(line, x)
         /\ \A c \in Caller : windowStart'[c] = windowStart[c] =>
              Recent(LineOf[c], windowStart[c])' = Recent(LineOf[c], windowStart[c])
         /\ EveryWindow => EveryWindow'
<1>1. ASSUME NEW line, NEW x PROVE Window(line, x)' = Window(line, x)
  BY DEF Window
<1>2. ASSUME NEW c \in Caller, windowStart'[c] = windowStart[c]
      PROVE  Recent(LineOf[c], windowStart[c])' = Recent(LineOf[c], windowStart[c])
  BY <1>2 DEF Recent
<1>3. ASSUME EveryWindow PROVE EveryWindow'
  BY <1>1, <1>3 DEF EveryWindow
<1> QED
  BY <1>1, <1>2, <1>3

LEMMA BeginStep == ASSUME BudgetInv, NEW c \in Caller, Begin(c) PROVE BudgetInv'
<1> USE BudgetConstants DEF BudgetInv
<1>1. PICK t \in {clock + Skew[c], clock + Skew[c] + 1} :
        /\ windowStart' = [windowStart EXCEPT ![c] = clock + Skew[c] - windowMs]
        /\ at' = [at EXCEPT ![c] = t]
  BY DEF Begin
<1>2. clock \in Int /\ Skew[c] \in Int /\ t \in Int /\ windowMs \in Int
  BY DEF TypeOK
<1>3. TypeOK'
  BY <1>1, <1>2 DEF TypeOK, Begin, Phases, Holds
<1>4. c \notin ledger
  BY DEF RowInv, Begin
<1>5. RowInv'
  BY <1>4 DEF TypeOK, RowInv, NoUnmeteredGrant, Begin
<1>6. ledger' = ledger /\ \A d \in ledger : at'[d] = at[d]
  BY <1>1, <1>4 DEF Begin, TypeOK
<1>7. PendingInv'
  <2> SUFFICES ASSUME NEW d \in Caller
               PROVE  /\ pc'[d] \in {"waiting", "locked", "inserted"} =>
                           windowStart'[d] + windowMs <= at'[d]
                      /\ pc'[d] = "inserted" =>
                           Cardinality(Recent(LineOf[d], windowStart[d])') + 1 <= maxCount[LineOf[d]]
    BY DEF PendingInv
  <2>1. CASE d = c
    BY <2>1, <1>1, <1>2 DEF TypeOK, Begin
  <2>2. CASE d # c
    <3>1. pc'[d] = pc[d] /\ windowStart'[d] = windowStart[d] /\ at'[d] = at[d]
      BY <2>2, <1>1 DEF TypeOK, Begin
    <3> QED
      BY <3>1, <1>6, SameRows DEF PendingInv
  <2> QED
    BY <2>1, <2>2
<1> QED
  BY <1>3, <1>5, <1>6, <1>7, SameRows

\* Waiting for the lock and the check itself move only this call's pc.
LEMMA LockedStep ==
  ASSUME BudgetInv, NEW c \in Caller, Lock(c) \/ CheckAndInsert(c)
  PROVE  BudgetInv'
<1> USE BudgetConstants DEF BudgetInv
<1>1. /\ ledger' = ledger /\ at' = at /\ windowStart' = windowStart
      /\ pc[c] \in {"waiting", "locked"}
      /\ pc'[c] \in {"locked", "inserted", "empty"}
      /\ \A d \in Caller \ {c} : pc'[d] = pc[d]
      /\ pc'[c] = "inserted" => Affordable(c)
  BY DEF Lock, CheckAndInsert, TypeOK
<1>2. TypeOK'
  <2>1. CASE Lock(c)
    BY <2>1 DEF TypeOK, Lock, Phases, Holds
  <2>2. CASE CheckAndInsert(c)
    BY <2>2 DEF TypeOK, CheckAndInsert, Phases, Holds
  <2> QED
    BY <2>1, <2>2
<1>3. RowInv'
  BY <1>1 DEF RowInv, NoUnmeteredGrant, TypeOK
<1>4. PendingInv'
  <2> SUFFICES ASSUME NEW d \in Caller
               PROVE  /\ pc'[d] \in {"waiting", "locked", "inserted"} =>
                           windowStart'[d] + windowMs <= at'[d]
                      /\ pc'[d] = "inserted" =>
                           Cardinality(Recent(LineOf[d], windowStart[d])') + 1 <= maxCount[LineOf[d]]
    BY DEF PendingInv
  <2>1. Recent(LineOf[d], windowStart[d])' = Recent(LineOf[d], windowStart[d])
    BY <1>1, SameRows
  <2>2. CASE d = c
    <3>1. Affordable(c) => Cardinality(Recent(LineOf[c], windowStart[c])) + 1 <= maxCount[LineOf[c]]
      BY DEF Affordable
    <3> QED
      BY <3>1, <2>1, <2>2, <1>1 DEF PendingInv
  <2>3. CASE d # c
    BY <2>1, <2>3, <1>1 DEF PendingInv
  <2> QED
    BY <2>2, <2>3
<1> QED
  BY <1>1, <1>2, <1>3, <1>4, SameRows

\* A call that ends without a row.
LEMMA RowlessEnd ==
  ASSUME BudgetInv, NEW c \in Caller, Holds(c) \/ pc[c] = "waiting",
         ledger' = ledger, pc' \in {[pc EXCEPT ![c] = "refused"], [pc EXCEPT ![c] = "threw"]},
         Forget(c), TypeOK'
  PROVE  BudgetInv'
<1> USE BudgetConstants DEF BudgetInv
<1>1. c \notin ledger
  BY DEF RowInv, Holds
<1>2. \A d \in Caller \ {c} : at'[d] = at[d] /\ windowStart'[d] = windowStart[d] /\ pc'[d] = pc[d]
  BY DEF Forget, TypeOK
<1>3. pc'[c] \in {"refused", "threw"}
  BY DEF TypeOK
<1>4. \A d \in ledger : at'[d] = at[d]
  BY <1>1, <1>2 DEF TypeOK
<1>5. RowInv'
  BY <1>1, <1>2, <1>3 DEF RowInv, NoUnmeteredGrant, TypeOK
<1>6. PendingInv'
  <2> SUFFICES ASSUME NEW d \in Caller, d # c
               PROVE  /\ pc'[d] \in {"waiting", "locked", "inserted"} =>
                           windowStart'[d] + windowMs <= at'[d]
                      /\ pc'[d] = "inserted" =>
                           Cardinality(Recent(LineOf[d], windowStart[d])') + 1 <= maxCount[LineOf[d]]
    BY <1>3 DEF PendingInv
  <2>1. Recent(LineOf[d], windowStart[d])' = Recent(LineOf[d], windowStart[d])
    BY <1>2, <1>4, SameRows
  <2> QED
    BY <2>1, <1>2 DEF PendingInv
<1> QED
  BY <1>4, <1>5, <1>6, SameRows

\* The step the theorem is about: c's row joins the ledger.
LEMMA RowCommit ==
  ASSUME BudgetInv, NEW c \in Caller, Commit(c), pc[c] = "inserted", TypeOK'
  PROVE  BudgetInv'
<1> USE BudgetConstants DEF BudgetInv
<1>1. /\ ledger' = ledger \cup {c} /\ c \notin ledger
      /\ \A d \in Caller \ {c} : pc'[d] = pc[d] /\ windowStart'[d] = windowStart[d]
      /\ pc'[c] \in {"ok", "threw"}
  BY DEF Commit, Forget, RowInv, TypeOK
<1>2. at' = at
  BY <1>1 DEF Commit, Forget, TypeOK
<1>3. RowInv'
  BY <1>1 DEF RowInv, NoUnmeteredGrant, TypeOK
<1>4. EveryWindow'
  <2> SUFFICES ASSUME NEW line \in Line, NEW x \in Int
               PROVE  Cardinality(Window(line, x)') <= maxCount[line]
    BY DEF EveryWindow
  <2>1. CASE c \notin Window(line, x)'
    <3>1. Window(line, x)' = Window(line, x)
      BY <2>1, <1>1, <1>2 DEF Window
    <3> QED
      BY <3>1 DEF EveryWindow
  <2>2. CASE c \in Window(line, x)'
    <3>1. /\ LineOf[c] = line /\ at[c] <= x + windowMs
          /\ Window(line, x)' = Window(line, x) \cup {c}
          /\ c \notin Window(line, x)
      BY <2>2, <1>1, <1>2 DEF Window
    <3>2. windowStart[c] + windowMs <= at[c]
      BY DEF PendingInv
    <3>3. windowStart[c] <= x
      BY <3>1, <3>2 DEF TypeOK
    <3>4. Window(line, x) \subseteq Recent(line, windowStart[c])
      BY <3>3 DEF Window, Recent, TypeOK
    <3>5. IsFiniteSet(Window(line, x)) /\ IsFiniteSet(Recent(line, windowStart[c]))
      BY FiniteRows DEF TypeOK
    <3>6. Cardinality(Window(line, x)) <= Cardinality(Recent(line, windowStart[c]))
      BY <3>4, <3>5, FS_Subset
    <3>7. Cardinality(Window(line, x)') = Cardinality(Window(line, x)) + 1
      BY <3>1, <3>5, FS_AddElement
    <3>8. Cardinality(Recent(line, windowStart[c])) + 1 <= maxCount[line]
      BY <3>1 DEF PendingInv
    <3>9. /\ Cardinality(Window(line, x)) \in Nat
          /\ Cardinality(Recent(line, windowStart[c])) \in Nat
          /\ maxCount[line] \in Nat
      BY <3>5, FS_CardinalityType
    <3> QED
      BY <3>6, <3>7, <3>8, <3>9
  <2> QED
    BY <2>1, <2>2
<1>5. PendingInv'
  <2> SUFFICES ASSUME NEW d \in Caller, d # c
               PROVE  /\ pc'[d] \in {"waiting", "locked", "inserted"} =>
                           windowStart'[d] + windowMs <= at'[d]
                      /\ pc'[d] = "inserted" =>
                           Cardinality(Recent(LineOf[d], windowStart[d])') + 1 <= maxCount[LineOf[d]]
    BY <1>1 DEF PendingInv
  <2>1. CASE pc[d] = "inserted"
    <3>1. LineOf[d] # LineOf[c]
      BY <2>1 DEF TypeOK, Holds
    <3>2. Recent(LineOf[d], windowStart[d])' = Recent(LineOf[d], windowStart[d])
      BY <3>1, <1>1, <1>2 DEF Recent
    <3> QED
      BY <3>2, <1>1, <1>2 DEF PendingInv
  <2>2. CASE pc[d] # "inserted"
    BY <2>2, <1>1, <1>2 DEF PendingInv
  <2> QED
    BY <2>1, <2>2
<1> QED
  BY <1>3, <1>4, <1>5

LEMMA EndTypes ==
  ASSUME TypeOK, NEW c \in Caller, Commit(c) \/ Abort(c)
  PROVE  TypeOK'
<1> USE BudgetConstants
<1>1. windowStart' \in [Caller -> Int] /\ at' \in [Caller -> Int]
  BY DEF Commit, Abort, Forget, TypeOK
<1>2. CASE Commit(c)
  BY <1>1, <1>2 DEF TypeOK, Commit, Unlock, Phases, Settled, Holds
<1>3. CASE Abort(c)
  BY <1>1, <1>3 DEF TypeOK, Abort, Unlock, Phases, Settled, Holds
<1> QED
  BY <1>2, <1>3

LEMMA NextBudget == BudgetInv /\ [Next]_vars => BudgetInv'
<1> SUFFICES ASSUME BudgetInv, [Next]_vars PROVE BudgetInv'
  OBVIOUS
<1>1. ASSUME NEW c \in Caller, Commit(c) PROVE BudgetInv'
  <2>1. TypeOK'
    BY <1>1, EndTypes DEF BudgetInv
  <2>2. CASE pc[c] = "inserted"
    BY <1>1, <2>1, <2>2, RowCommit
  <2>3. CASE pc[c] = "empty"
    BY <1>1, <2>1, <2>3, RowlessEnd DEF Commit, Holds
  <2> QED
    BY <1>1, <2>2, <2>3 DEF Commit
<1>2. ASSUME NEW c \in Caller, Abort(c) PROVE BudgetInv'
  BY <1>2, EndTypes, RowlessEnd DEF BudgetInv, Abort, Holds
<1>3. CASE Tick \/ UNCHANGED vars
  <2>1. /\ pc' = pc /\ windowStart' = windowStart /\ at' = at /\ lock' = lock
        /\ ledger' = ledger /\ clock' \in Nat
    BY <1>3 DEF Tick, vars, BudgetInv, TypeOK
  <2>2. TypeOK' /\ RowInv'
    BY <2>1 DEF BudgetInv, TypeOK, Holds, RowInv, NoUnmeteredGrant
  <2>3. PendingInv'
    BY <2>1 DEF BudgetInv, PendingInv, Recent
  <2>4. EveryWindow'
    BY <2>1, SameRows DEF BudgetInv
  <2> QED
    BY <2>2, <2>3, <2>4 DEF BudgetInv
<1> QED
  BY <1>1, <1>2, <1>3, BeginStep, LockedStep DEF Next, tryConsume

-----------------------------------------------------------------------------
(* The ceiling of the stroops.  The sum over a set of rows is a fold; it is   *)
(* counted here as the size of a set, by induction on the rows.              *)

\* One pair for every stroop of the rows.
Coins(rows) == UNION {{c} \X (1..Cost[c]) : c \in rows}

LEMMA CoinsOfRow ==
  ASSUME NEW c \in Caller
  PROVE  IsFiniteSet({c} \X (1..Cost[c])) /\ Cardinality({c} \X (1..Cost[c])) = Cost[c]
<1>1. Cost[c] \in Nat
  BY BudgetConstants
<1>2. IsFiniteSet(1..Cost[c]) /\ Cardinality(1..Cost[c]) = Cost[c]
  BY <1>1, FS_Interval
<1>3. IsFiniteSet({c}) /\ Cardinality({c}) = 1
  BY FS_Singleton
<1>4. /\ IsFiniteSet({c} \X (1..Cost[c]))
      /\ Cardinality({c} \X (1..Cost[c])) = Cardinality({c}) * Cardinality(1..Cost[c])
  BY <1>2, <1>3, FS_Product
<1> QED
  BY <1>1, <1>2, <1>3, <1>4

LEMMA CoinsFinite ==
  ASSUME NEW rows \in SUBSET Caller
  PROVE  IsFiniteSet(Coins(rows)) /\ Cardinality(Coins(rows)) \in Nat
<1>1. IsFiniteSet(rows)
  BY BudgetConstants, FS_Subset
<1>2. IsFiniteSet({{c} \X (1..Cost[c]) : c \in rows})
  <2> DEFINE f == [c \in rows |-> {c} \X (1..Cost[c])]
             T == {{c} \X (1..Cost[c]) : c \in rows}
  <2>1. f \in Surjection(rows, T)
    BY DEF Surjection
  <2> HIDE DEF f, T
  <2>2. IsFiniteSet(T)
    BY <2>1, <1>1, FS_Surjection
  <2> QED
    BY <2>2 DEF T
<1>3. \A x \in {{c} \X (1..Cost[c]) : c \in rows} : IsFiniteSet(x)
  BY CoinsOfRow
<1> QED
  BY <1>2, <1>3, FS_UNION, FS_CardinalityType DEF Coins

\* A row more is its own stroops more.
LEMMA CoinsAdd ==
  ASSUME NEW rows \in SUBSET Caller, NEW c \in Caller, c \notin rows
  PROVE  Cardinality(Coins(rows \cup {c})) = Cardinality(Coins(rows)) + Cost[c]
<1>1. Coins(rows \cup {c}) = Coins(rows) \cup ({c} \X (1..Cost[c]))
  BY DEF Coins
<1>2. Coins(rows) \cap ({c} \X (1..Cost[c])) = {}
  BY DEF Coins
<1>3. IsFiniteSet(Coins(rows)) /\ Cardinality(Coins(rows)) \in Nat
  BY CoinsFinite
<1>4. IsFiniteSet({c} \X (1..Cost[c])) /\ Cardinality({c} \X (1..Cost[c])) = Cost[c]
  BY CoinsOfRow
<1>5. Cardinality(Coins(rows) \cup ({c} \X (1..Cost[c]))) =
        Cardinality(Coins(rows)) + Cardinality({c} \X (1..Cost[c]))
          - Cardinality(Coins(rows) \cap ({c} \X (1..Cost[c])))
  BY <1>3, <1>4, FS_Union
<1>6. Cardinality(Coins(rows) \cap ({c} \X (1..Cost[c]))) = 0
  BY <1>2, FS_EmptySet
<1>7. Cost[c] \in Nat
  BY BudgetConstants
<1> QED
  <2>1. Cardinality(Coins(rows \cup {c})) = Cardinality(Coins(rows)) + Cost[c] - 0
    BY <1>1, <1>4, <1>5, <1>6
  <2> QED
    BY <2>1, <1>3, <1>7

\* MapThenSumSet goes through a set in the order CHOOSE takes its elements in.
Pick(s) == CHOOSE x \in s : TRUE
Adds(iter, rows) ==
  iter = [s \in SUBSET rows |-> IF s = {} THEN 0 ELSE Cost[Pick(s)] + iter[s \ {Pick(s)}]]

\* The fold counts the coins.
LEMMA StroopsCount ==
  ASSUME NEW rows \in SUBSET Caller
  PROVE  Stroops(rows) = Cardinality(Coins(rows))
<1> DEFINE count == [s \in SUBSET rows |-> Cardinality(Coins(s))]
           iter  == CHOOSE it : Adds(it, rows)
<1>0. Cardinality(Coins({})) = 0
  <2>1. Coins({}) = {}
    BY DEF Coins
  <2> QED
    BY <2>1, FS_EmptySet
<1>1. ASSUME NEW s \in SUBSET rows, s # {}
      PROVE  Pick(s) \in s /\ Cardinality(Coins(s)) = Cost[Pick(s)] + Cardinality(Coins(s \ {Pick(s)}))
  <2>1. Pick(s) \in s
    BY <1>1 DEF Pick
  <2>2. /\ s \ {Pick(s)} \in SUBSET Caller /\ Pick(s) \in Caller
        /\ Pick(s) \notin s \ {Pick(s)} /\ s = (s \ {Pick(s)}) \cup {Pick(s)}
    BY <2>1
  <2>3. Cardinality(Coins(s)) = Cardinality(Coins(s \ {Pick(s)})) + Cost[Pick(s)]
    BY <2>2, CoinsAdd
  <2>4. Cardinality(Coins(s \ {Pick(s)})) \in Nat /\ Cost[Pick(s)] \in Nat
    BY <2>2, CoinsFinite, BudgetConstants
  <2> QED
    BY <2>1, <2>3, <2>4
<1>2. Adds(count, rows)
  <2>1. ASSUME NEW s \in SUBSET rows
        PROVE  count[s] = IF s = {} THEN 0 ELSE Cost[Pick(s)] + count[s \ {Pick(s)}]
    BY <1>0, <1>1
  <2> QED
    BY <2>1 DEF Adds
<1>3. Adds(iter, rows)
  BY <1>2
<1>4. Stroops(rows) = iter[rows]
  BY DEF Stroops, MapThenSumSet, MapThenFoldSet, Adds, Pick
<1> HIDE DEF iter, count
<1>5. \A s \in SUBSET rows : iter[s] = Cardinality(Coins(s))
  <2> DEFINE T == {s \in SUBSET rows : iter[s] # Cardinality(Coins(s))}
  <2> SUFFICES ASSUME T # {} PROVE FALSE
    OBVIOUS
  <2>1. IsFiniteSet(rows)
    BY BudgetConstants, FS_Subset
  <2>2. IsWellFoundedOn(StrictSubsetOrdering(rows), FiniteSubsetsOf(rows))
    BY FS_StrictSubsetOrderingWellFounded
  <2>3. T \subseteq FiniteSubsetsOf(rows)
    BY <2>1, FS_FiniteSubsetsOfFinite
  <2>4. PICK s \in T : \A q \in T : ~(<<q, s>> \in StrictSubsetOrdering(rows))
    BY <2>2, <2>3, WFMin
  <2>5. iter[s] = IF s = {} THEN 0 ELSE Cost[Pick(s)] + iter[s \ {Pick(s)}]
    BY <1>3 DEF Adds
  <2>6. s # {}
    BY <2>5, <1>0
  <2>7. Pick(s) \in s /\ Cardinality(Coins(s)) = Cost[Pick(s)] + Cardinality(Coins(s \ {Pick(s)}))
    BY <2>6, <1>1
  <2>8. s \ {Pick(s)} \notin T
    <3>1. s \ {Pick(s)} \in SUBSET rows /\ s \in SUBSET rows
      OBVIOUS
    <3>2. s \ {Pick(s)} \subseteq s /\ s \ {Pick(s)} # s
      BY <2>7
    <3>3. <<s \ {Pick(s)}, s>> \in StrictSubsetOrdering(rows)
      BY <3>1, <3>2 DEF StrictSubsetOrdering
    <3> QED
      BY <2>4, <3>3
  <2> QED
    BY <2>5, <2>6, <2>7, <2>8
<1> QED
  BY <1>4, <1>5

LEMMA StroopsGrow ==
  ASSUME NEW more \in SUBSET Caller, NEW rows \in SUBSET more
  PROVE  Stroops(rows) \in Nat /\ Stroops(more) \in Nat /\ Stroops(rows) <= Stroops(more)
<1>1. Coins(rows) \subseteq Coins(more)
  BY DEF Coins
<1>2. IsFiniteSet(Coins(more)) /\ Cardinality(Coins(rows)) \in Nat /\ Cardinality(Coins(more)) \in Nat
  BY CoinsFinite
<1>3. Cardinality(Coins(rows)) <= Cardinality(Coins(more))
  BY <1>1, <1>2, FS_Subset
<1> QED
  BY <1>2, <1>3, StroopsCount

LEMMA StroopsAdd ==
  ASSUME NEW rows \in SUBSET Caller, NEW c \in Caller, c \notin rows
  PROVE  Stroops(rows \cup {c}) = Stroops(rows) + Cost[c]
<1>1. rows \cup {c} \in SUBSET Caller
  OBVIOUS
<1>2. Stroops(rows \cup {c}) = Cardinality(Coins(rows \cup {c})) /\ Stroops(rows) = Cardinality(Coins(rows))
  BY <1>1, StroopsCount
<1> QED
  BY <1>2, CoinsAdd

\* What a call that may insert saw of the stroops holds until it commits.
PendingStroops ==
  \A c \in Caller : pc[c] = "inserted" =>
    \/ maxStroops[LineOf[c]] = NoCeiling
    \/ Stroops(Recent(LineOf[c], windowStart[c])) + Cost[c] <= maxStroops[LineOf[c]]

\* StroopsCeiling for the windows that begin anywhere.
EveryStroops ==
  \A line \in Line : maxStroops[line] # NoCeiling =>
    \A x \in Int : Stroops(Window(line, x)) <= maxStroops[line]

\* A step that commits no row, and after which a call that may insert saw what
\* it would see now.
LEMMA StroopsKept ==
  ASSUME BudgetInv, PendingStroops, EveryStroops, NEW c \in Caller,
         ledger' = ledger, \A d \in ledger : at'[d] = at[d],
         \A d \in Caller \ {c} : pc'[d] = pc[d] /\ windowStart'[d] = windowStart[d],
         pc'[c] = "inserted" => windowStart'[c] = windowStart[c] /\ Affordable(c)
  PROVE  PendingStroops' /\ EveryStroops'
<1>1. \A line, x : Window(line, x)' = Window(line, x)
  BY SameRows DEF BudgetInv
<1>2. EveryStroops'
  BY <1>1 DEF EveryStroops
<1>3. ASSUME NEW d \in Caller, pc'[d] = "inserted"
      PROVE  \/ maxStroops[LineOf[d]] = NoCeiling
             \/ Stroops(Recent(LineOf[d], windowStart[d])') + Cost[d] <= maxStroops[LineOf[d]]
  <2>1. windowStart'[d] = windowStart[d]
    BY <1>3
  <2>2. Recent(LineOf[d], windowStart[d])' = Recent(LineOf[d], windowStart[d])
    BY <2>1, SameRows DEF BudgetInv
  <2>3. CASE d = c
    BY <1>3, <2>2, <2>3 DEF Affordable
  <2>4. CASE d # c
    BY <1>3, <2>2, <2>4 DEF PendingStroops
  <2> QED
    BY <2>3, <2>4
<1> QED
  BY <1>2, <1>3 DEF PendingStroops

LEMMA StroopsCommit ==
  ASSUME BudgetInv, PendingStroops, EveryStroops, NEW c \in Caller, Commit(c), pc[c] = "inserted"
  PROVE  PendingStroops' /\ EveryStroops'
<1> USE BudgetConstants
<1>1. /\ ledger' = ledger \cup {c} /\ c \notin ledger /\ ledger \subseteq Caller
      /\ \A d \in Caller \ {c} : pc'[d] = pc[d] /\ windowStart'[d] = windowStart[d]
      /\ pc'[c] # "inserted"
  BY DEF Commit, Forget, BudgetInv, RowInv, TypeOK
<1>2. at' = at
  BY <1>1 DEF Commit, Forget, BudgetInv, TypeOK
<1>3. ASSUME NEW line \in Line, maxStroops[line] # NoCeiling, NEW x \in Int
      PROVE  Stroops(Window(line, x)') <= maxStroops[line]
  <2>1. CASE c \notin Window(line, x)'
    <3>1. Window(line, x)' = Window(line, x)
      BY <2>1, <1>1, <1>2 DEF Window
    <3> QED
      BY <3>1, <1>3 DEF EveryStroops
  <2>2. CASE c \in Window(line, x)'
    <3>1. /\ LineOf[c] = line /\ at[c] <= x + windowMs
          /\ Window(line, x)' = Window(line, x) \cup {c}
          /\ c \notin Window(line, x)
      BY <2>2, <1>1, <1>2 DEF Window
    <3>2. windowStart[c] + windowMs <= at[c] /\ windowStart[c] \in Int /\ at[c] \in Int
      BY DEF BudgetInv, PendingInv, TypeOK
    <3>3. windowStart[c] <= x
      BY <3>1, <3>2
    <3>4. Window(line, x) \subseteq Recent(line, windowStart[c])
      BY <3>2, <3>3 DEF Window, Recent, BudgetInv, TypeOK
    <3>5. Recent(line, windowStart[c]) \in SUBSET Caller /\ Window(line, x) \in SUBSET Caller
      BY <1>1 DEF Recent, Window
    <3>6. /\ Stroops(Window(line, x)) <= Stroops(Recent(line, windowStart[c]))
          /\ Stroops(Window(line, x)) \in Nat /\ Stroops(Recent(line, windowStart[c])) \in Nat
      BY <3>4, <3>5, StroopsGrow
    <3>7. Stroops(Window(line, x)') = Stroops(Window(line, x)) + Cost[c]
      BY <3>1, <3>5, StroopsAdd
    <3>8. Stroops(Recent(line, windowStart[c])) + Cost[c] <= maxStroops[line]
      BY <3>1, <1>3 DEF PendingStroops
    <3>9. Cost[c] \in Nat /\ maxStroops[line] \in Nat
      BY <1>3
    <3> QED
      BY <3>6, <3>7, <3>8, <3>9
  <2> QED
    BY <2>1, <2>2
<1>4. ASSUME NEW d \in Caller, pc'[d] = "inserted"
      PROVE  \/ maxStroops[LineOf[d]] = NoCeiling
             \/ Stroops(Recent(LineOf[d], windowStart[d])') + Cost[d] <= maxStroops[LineOf[d]]
  <2>1. d # c /\ pc[d] = "inserted" /\ windowStart'[d] = windowStart[d]
    BY <1>1, <1>4
  <2>2. LineOf[d] # LineOf[c]
    BY <2>1 DEF BudgetInv, TypeOK, Holds
  <2>3. Recent(LineOf[d], windowStart[d])' = Recent(LineOf[d], windowStart[d])
    BY <2>1, <2>2, <1>1, <1>2 DEF Recent
  <2> QED
    BY <2>1, <2>3 DEF PendingStroops
<1> QED
  BY <1>3, <1>4 DEF PendingStroops, EveryStroops

LEMMA NextStroops ==
  ASSUME BudgetInv, PendingStroops, EveryStroops, [Next]_vars
  PROVE  PendingStroops' /\ EveryStroops'
<1> USE BudgetConstants DEF BudgetInv
<1>1. ASSUME NEW c \in Caller, Begin(c) PROVE PendingStroops' /\ EveryStroops'
  <2>1. c \notin ledger /\ ledger' = ledger /\ pc'[c] # "inserted"
    BY <1>1 DEF Begin, RowInv, TypeOK
  <2>2. \A d \in Caller \ {c} : pc'[d] = pc[d] /\ windowStart'[d] = windowStart[d] /\ at'[d] = at[d]
    BY <1>1 DEF Begin, TypeOK
  <2>3. \A d \in ledger : at'[d] = at[d]
    BY <2>1, <2>2 DEF TypeOK
  <2> QED
    BY <2>1, <2>2, <2>3, StroopsKept
<1>2. ASSUME NEW c \in Caller, Lock(c) \/ CheckAndInsert(c) PROVE PendingStroops' /\ EveryStroops'
  <2>1. /\ ledger' = ledger /\ at' = at /\ windowStart' = windowStart
        /\ \A d \in Caller \ {c} : pc'[d] = pc[d]
        /\ pc'[c] = "inserted" => Affordable(c)
    BY <1>2 DEF Lock, CheckAndInsert, TypeOK
  <2> QED
    BY <2>1, StroopsKept
<1>3. ASSUME NEW c \in Caller, Abort(c) \/ (Commit(c) /\ pc[c] # "inserted")
      PROVE  PendingStroops' /\ EveryStroops'
  <2>1. ledger' = ledger /\ c \notin ledger /\ pc'[c] # "inserted"
    BY <1>3 DEF Abort, Commit, RowInv, TypeOK
  <2>2. \A d \in Caller \ {c} : pc'[d] = pc[d] /\ windowStart'[d] = windowStart[d] /\ at'[d] = at[d]
    BY <1>3 DEF Abort, Commit, Forget, TypeOK
  <2>3. \A d \in ledger : at'[d] = at[d]
    BY <2>1, <2>2 DEF TypeOK
  <2> QED
    BY <2>1, <2>2, <2>3, StroopsKept
<1>4. CASE Tick \/ UNCHANGED vars
  BY <1>4 DEF Tick, vars, PendingStroops, EveryStroops, Recent, Window
<1> QED
  BY <1>1, <1>2, <1>3, <1>4, StroopsCommit DEF Next, tryConsume

\* tryConsume keeps its ceiling: at no time does a window of windowMs hold more
\* than maxCount calls of a line, whatever the interleaving of the callers, the
\* age of their clock readings and the skew between replicas.
THEOREM BudgetCountCeiling == Spec => []CountCeiling
<1>1. BudgetInv => CountCeiling
  <2> SUFFICES ASSUME BudgetInv, NEW line \in Line, NEW x \in Starts
               PROVE  Cardinality(Window(line, x)) <= maxCount[line]
    BY DEF CountCeiling
  <2>1. x \in Int
    BY DEF Starts, BudgetInv, TypeOK
  <2> QED
    BY <2>1 DEF BudgetInv, EveryWindow
<1> QED
  BY <1>1, InitBudget, NextBudget, PTL DEF Spec

\* The same ceiling in stroops: at no time does a window of windowMs hold more
\* than maxStroops of a line that caps them.
THEOREM BudgetStroopsCeiling == Spec => []StroopsCeiling
<1>1. Init => BudgetInv /\ PendingStroops /\ EveryStroops
  <2> SUFFICES ASSUME Init PROVE PendingStroops /\ EveryStroops
    BY InitBudget
  <2>1. PendingStroops
    BY DEF Init, PendingStroops
  <2>2. EveryStroops
    <3> SUFFICES ASSUME NEW line \in Line, maxStroops[line] # NoCeiling, NEW x \in Int
                 PROVE  Stroops(Window(line, x)) <= maxStroops[line]
      BY DEF EveryStroops
    <3>1. Window(line, x) = {} /\ Coins({}) = {}
      BY DEF Init, Window, Coins
    <3>2. Stroops({}) = Cardinality(Coins({})) /\ Cardinality({}) = 0
      BY StroopsCount, FS_EmptySet
    <3>3. maxStroops[line] \in Nat
      BY BudgetConstants
    <3> QED
      BY <3>1, <3>2, <3>3
  <2> QED
    BY <2>1, <2>2
<1>2. BudgetInv /\ PendingStroops /\ EveryStroops /\ [Next]_vars
        => (BudgetInv /\ PendingStroops /\ EveryStroops)'
  BY NextBudget, NextStroops
<1>3. BudgetInv /\ EveryStroops => StroopsCeiling
  <2> SUFFICES ASSUME BudgetInv, EveryStroops, NEW line \in Line, maxStroops[line] # NoCeiling,
                      NEW x \in Starts
               PROVE  Stroops(Window(line, x)) <= maxStroops[line]
    BY DEF StroopsCeiling
  <2>1. x \in Int
    BY DEF Starts, BudgetInv, TypeOK
  <2> QED
    BY <2>1 DEF EveryStroops
<1> QED
  BY <1>1, <1>2, <1>3, PTL DEF Spec

\* A call that is told ok has a committed row: a statement that fails, a refusal
\* and a lost answer never turn into a grant.
THEOREM BudgetFailsClosed == Spec => []NoUnmeteredGrant
<1>1. BudgetInv => NoUnmeteredGrant
  BY DEF BudgetInv, RowInv
<1> QED
  BY <1>1, InitBudget, NextBudget, PTL DEF Spec

\* The variables keep their types and the advisory lock of a line is held by
\* exactly the transaction that took it.
THEOREM BudgetTypeCorrect == Spec => []TypeOK
<1>1. BudgetInv => TypeOK
  BY DEF BudgetInv
<1> QED
  BY <1>1, InitBudget, NextBudget, PTL DEF Spec

-----------------------------------------------------------------------------

EventTypes == {"add", "remove", "threshold"}
Stages     == {"idle", "charge", "submit", "insert", "touch", "act", "threshold"}
Request    == [at : Stages, key : Keys \cup {"none"}, id : Sessions \cup {"none"}]
SessionRow == [key : Keys \cup {"none"}, expires : Nat]
Event      == [type : EventTypes, key : Keys, version : Nat, expected : Int, life : Nat]

\* What the process keeps has its types; a request past its first step names
\* the key it is about, and one that came with a session names that too.
AccountsTypeOK ==
  /\ now \in Nat /\ life \in Nat /\ charged \in Nat /\ sent \in Nat
  /\ maxAge \in BalanceMaxAges
  /\ session \in [Sessions -> SessionRow]
  /\ \A s \in Sessions : session[s] # NoSession => session[s].key \in Keys
  /\ version \in [Keys -> Nat]
  /\ audit \in Seq(Event)
  /\ req \in [Handlers -> Request]
  /\ \A h \in Handlers : req[h].at # "idle" => req[h].key \in Keys
  /\ \A h \in Handlers : req[h].at = "touch" => req[h].id \in Sessions

\* The deployments that have been charged and not been sent yet.
Pending == {h \in Handlers : req[h].at = "submit"}

\* Every creation in flight is paid for, and one that inserts has its account.
CreationBooks ==
  /\ sent + Cardinality(Pending) <= charged
  /\ \A h \in Handlers : req[h].at = "insert" => req[h].key \in chain
  /\ wallet \subseteq chain

\* The log holds no life that is still to come and, of this life, no version the
\* counter has not reached.
VersionsReached ==
  \A i \in 1..Len(audit) :
    /\ audit[i].life <= life
    /\ audit[i].life = life /\ audit[i].type # "threshold" =>
         audit[i].version <= version[audit[i].key]

\* A cached balance was first cached before it was last written.
CacheOrdered ==
  cached.present =>
    /\ cached.created \in Nat /\ cached.written \in Nat
    /\ cached.created <= cached.written /\ cached.written <= now

AccountsInv ==
  /\ AccountsTypeOK /\ CreationBooks /\ RevokedStaysDead
  /\ VersionsReached /\ NoLostSignerUpdate /\ CacheOrdered

LEMMA PendingFinite == IsFiniteSet(Pending) /\ Cardinality(Pending) \in Nat
<1>1. Pending \subseteq Handlers
  BY DEF Pending
<1> QED
  BY <1>1, AccountConstants, FS_Subset, FS_CardinalityType

LEMMA InitAccounts == AccountsInit => AccountsInv
<1> SUFFICES ASSUME AccountsInit PROVE AccountsInv
  OBVIOUS
<1>1. AccountsTypeOK
  BY DEF AccountsInit, AccountsTypeOK, Idle, NoSession, Request, Stages, SessionRow
<1>2. CreationBooks
  <2>1. Pending = {}
    BY DEF AccountsInit, Pending, Idle
  <2>2. Cardinality(Pending) = 0
    BY <2>1, FS_EmptySet
  <2> QED
    BY <2>2 DEF AccountsInit, CreationBooks, Idle
<1>3. RevokedStaysDead /\ VersionsReached /\ NoLostSignerUpdate
  BY DEF AccountsInit, RevokedStaysDead, VersionsReached, NoLostSignerUpdate
<1>4. CacheOrdered
  BY DEF AccountsInit, CacheOrdered, NoBalance
<1> QED
  BY <1>1, <1>2, <1>3, <1>4 DEF AccountsInv

\* A request that moves on is about what it was about.
LEMMA Moved ==
  ASSUME AccountsTypeOK, NEW h \in Handlers, NEW a \in Stages
  PROVE  /\ [req[h] EXCEPT !.at = a] \in Request
         /\ [req[h] EXCEPT !.at = a].at = a
         /\ [req[h] EXCEPT !.at = a].key = req[h].key
         /\ [req[h] EXCEPT !.at = a].id = req[h].id
  BY DEF AccountsTypeOK, Request

\* A step that takes handler h from r to r' without sending.
LEMMA PendingMoves ==
  ASSUME AccountsTypeOK, NEW h \in Handlers, NEW r, Go(h, r), req[h].at # "submit"
  PROVE  /\ r.at # "submit" => Pending' = Pending
         /\ r.at = "submit" => Cardinality(Pending') = Cardinality(Pending) + 1
<1>1. req' = [req EXCEPT ![h] = r] /\ DOMAIN req = Handlers
  BY DEF Go, AccountsTypeOK
<1>2. CASE r.at # "submit"
  BY <1>1, <1>2 DEF Pending
<1>3. CASE r.at = "submit"
  <2>1. Pending' = Pending \cup {h} /\ h \notin Pending
    BY <1>1, <1>3 DEF Pending
  <2> QED
    BY <2>1, <1>3, PendingFinite, FS_AddElement
<1> QED
  BY <1>2, <1>3

\* Whatever leaves the requests alone, or moves one between steps that neither
\* create nor submit, leaves the books alone.
LEMMA BooksKept ==
  ASSUME AccountsInv, NEW h \in Handlers, NEW r, UNCHANGED creation, Go(h, r),
         req[h].at # "submit", r.at \notin {"submit", "insert"}
  PROVE  CreationBooks'
<1>1. Pending' = Pending
  BY PendingMoves DEF AccountsInv
<1>2. \A g \in Handlers : req'[g].at = "insert" => req'[g].key \in chain'
  BY DEF AccountsInv, AccountsTypeOK, CreationBooks, Go, creation
<1> QED
  BY <1>1, <1>2 DEF AccountsInv, CreationBooks, creation

LEMMA BooksStep ==
  ASSUME AccountsInv, [CreateNext \/ SessionNext \/ CacheNext]_accountVars
  PROVE  CreationBooks'
<1> USE DEF AccountsInv
<1>1. CASE UNCHANGED <<creation, req>>
  BY <1>1 DEF CreationBooks, Pending, creation
<1>2. CASE Restart
  <2>1. Pending' = {}
    BY <1>2 DEF Restart, Pending, Idle
  <2>2. Cardinality(Pending') = 0
    BY <2>1, FS_EmptySet
  <2> QED
    BY <1>2, <2>2, PendingFinite DEF Restart, CreationBooks, AccountsTypeOK, creation, Idle
<1>3. ASSUME NEW h \in Handlers, CreateCharge(h) PROVE CreationBooks'
  <2>1. CASE Go(h, Idle) /\ UNCHANGED charged
    BY <1>3, <2>1, BooksKept DEF CreateCharge, Idle, creation
  <2>2. CASE charged' = charged + 1 /\ Go(h, [req[h] EXCEPT !.at = "submit"])
    <3>1. Cardinality(Pending') = Cardinality(Pending) + 1
      BY <1>3, <2>2, PendingMoves, Moved DEF Stages, CreateCharge, AccountsInv
    <3>2. \A g \in Handlers : req'[g].at = "insert" => req'[g].key \in chain'
      BY <1>3, <2>2 DEF CreateCharge, AccountsTypeOK, CreationBooks, Go
    <3> QED
      BY <1>3, <2>2, <3>1, <3>2, PendingFinite DEF CreateCharge, CreationBooks, AccountsTypeOK
  <2> QED
    BY <1>3, <2>1, <2>2 DEF CreateCharge
<1>4. ASSUME NEW h \in Handlers, CreateSubmit(h) PROVE CreationBooks'
  <2>1. req' \in {[req EXCEPT ![h] = [req[h] EXCEPT !.at = "insert"]], [req EXCEPT ![h] = Idle]}
    BY <1>4 DEF CreateSubmit, Go
  <2>a. req'[h].at # "submit" /\ (req'[h].at = "insert" => req'[h].key = req[h].key)
    <3>1. CASE req' = [req EXCEPT ![h] = Idle]
      BY <3>1 DEF AccountsTypeOK, Idle
    <3>2. CASE req' = [req EXCEPT ![h] = [req[h] EXCEPT !.at = "insert"]]
      <4>1. req'[h] = [req[h] EXCEPT !.at = "insert"]
        BY <3>2 DEF AccountsTypeOK
      <4> QED
        BY <4>1, Moved DEF Stages
    <3> QED
      BY <2>1, <3>1, <3>2
  <2>b. \A g \in Handlers \ {h} : req'[g] = req[g]
    BY <2>1 DEF AccountsTypeOK
  <2>2. Pending' = Pending \ {h} /\ h \in Pending
    BY <1>4, <2>a, <2>b DEF Pending, CreateSubmit
  <2>3. Cardinality(Pending') = Cardinality(Pending) - 1
    BY <2>2, PendingFinite, FS_RemoveElement
  <2>4. chain \subseteq chain'
    BY <1>4 DEF CreateSubmit
  <2>5. req'[h].at = "insert" => req[h].key \in chain'
    <3>1. CASE Go(h, Idle)
      BY <3>1 DEF Go, Idle, AccountsTypeOK
    <3>2. CASE chain' = chain \cup {req[h].key}
      BY <3>2
    <3> QED
      BY <1>4, <3>1, <3>2 DEF CreateSubmit
  <2>7. \A g \in Handlers : req'[g].at = "insert" => req'[g].key \in chain'
    BY <2>4, <2>5, <2>a, <2>b DEF CreationBooks
  <2>8. sent' = sent + 1 /\ charged' = charged /\ wallet' = wallet
    BY <1>4 DEF CreateSubmit
  <2>9. sent' + Cardinality(Pending') <= charged'
    BY <2>3, <2>8, PendingFinite DEF CreationBooks, AccountsTypeOK
  <2> QED
    BY <2>4, <2>7, <2>8, <2>9 DEF CreationBooks
<1>5. ASSUME NEW h \in Handlers, NEW s \in Sessions, CreateInsert(h, s) PROVE CreationBooks'
  <2>1. Pending' = Pending
    BY <1>5, PendingMoves DEF CreateInsert, Idle
  <2>2. req[h].key \in chain
    BY <1>5 DEF CreateInsert, CreationBooks
  <2>3. \A g \in Handlers : req'[g].at = "insert" => req'[g].key \in chain
    BY <1>5 DEF CreateInsert, CreationBooks, Go, Idle, AccountsTypeOK
  <2> QED
    BY <1>5, <2>1, <2>2, <2>3 DEF CreateInsert, CreationBooks
<1>6. ASSUME NEW h \in Handlers, NEW k \in Keys, CreateCheck(h, k) PROVE CreationBooks'
  BY <1>6, BooksKept DEF CreateCheck, Idle
<1>7. ASSUME NEW h \in Handlers, Touch(h) \/ ThresholdRecord(h) \/ Recorded(h)
      PROVE  CreationBooks'
  <2>1. CASE Touch(h)
    BY <2>1, BooksKept, Moved DEF Stages, Touch
  <2>2. CASE ThresholdRecord(h)
    BY <2>2, BooksKept DEF ThresholdRecord, Idle
  <2>3. CASE Recorded(h)
    BY <2>3, BooksKept DEF Recorded, Idle
  <2> QED
    BY <1>7, <2>1, <2>2, <2>3
<1>8. ASSUME NEW h \in Handlers, NEW s \in Sessions, Authenticate(h, s) \/ Revoke(h, s)
      PROVE  CreationBooks'
  <2>1. CASE Authenticate(h, s)
    BY <2>1, BooksKept DEF Authenticate, Idle
  <2>2. CASE Revoke(h, s)
    BY <2>2, BooksKept DEF Revoke, Idle
  <2> QED
    BY <1>8, <2>1, <2>2
<1>9. ASSUME NEW h \in Handlers, NEW a, NEW e, ManageSigner(h, a, e) PROVE CreationBooks'
  BY <1>9, BooksKept DEF ManageSigner, Idle
<1>10. ASSUME NEW h \in Handlers, NEW t, ThresholdRead(h, t) PROVE CreationBooks'
  BY <1>10, BooksKept, Moved DEF Stages, ThresholdRead
<1>11. ASSUME NEW k \in Keys, NEW s \in Sessions, Connect(k, s) PROVE CreationBooks'
  BY <1>11, <1>1 DEF Connect
<1>12. CASE AccountTick \/ CacheNext \/ UNCHANGED accountVars
  BY <1>12, <1>1 DEF AccountTick, CacheNext, CacheTouch, CacheDrop, CacheSet, accountVars
<1> QED
  BY <1>2, <1>3, <1>4, <1>5, <1>6, <1>7, <1>8, <1>9, <1>10, <1>11, <1>12
  DEF CreateNext, SessionNext, UpdatePolicy, RotateKey

\* Types of a request that ends, begins or moves on.
LEMMA RequestTypes ==
  ASSUME AccountsTypeOK, NEW h \in Handlers, NEW r \in Request, Go(h, r),
         r.at # "idle" => r.key \in Keys, r.at = "touch" => r.id \in Sessions
  PROVE  /\ req' \in [Handlers -> Request]
         /\ \A g \in Handlers : req'[g].at # "idle" => req'[g].key \in Keys
         /\ \A g \in Handlers : req'[g].at = "touch" => req'[g].id \in Sessions
  BY DEF AccountsTypeOK, Go

LEMMA IdleRequest == Idle \in Request /\ Idle.at = "idle"
  BY DEF Idle, Request, Stages

\* The session rows after a step that writes one of them, or none.
SessionRows ==
  /\ session \in [Sessions -> SessionRow]
  /\ \A s \in Sessions : session[s] # NoSession => session[s].key \in Keys
  /\ RevokedStaysDead

LEMMA Opened ==
  ASSUME AccountsInv, NEW k \in Keys, NEW s \in Sessions, OpenSession(s, k),
         revoked' = revoked
  PROVE  SessionRows'
<1>1. now + SessionTtl \in Nat
  BY AccountConstants DEF AccountsInv, AccountsTypeOK
<1> DEFINE row == [key |-> k, expires |-> now + SessionTtl]
<1>2. row \in SessionRow /\ row.key = k
  BY <1>1 DEF SessionRow
<1>3. session' = [session EXCEPT ![s] = row] /\ s \notin revoked
  BY DEF OpenSession
<1> HIDE DEF row
<1> QED
  BY <1>2, <1>3 DEF AccountsInv, AccountsTypeOK, SessionRows, RevokedStaysDead

LEMMA TouchKeeps ==
  ASSUME AccountsInv, NEW s \in Sessions, NEW k, session' = Touched(s, k), revoked' = revoked
  PROVE  SessionRows'
<1>1. CASE Live(s)
  <2>1. now + SessionTtl \in Nat
    BY AccountConstants DEF AccountsInv, AccountsTypeOK
  <2>2. session' = [session EXCEPT ![s] = [session[s] EXCEPT !.expires = now + SessionTtl]]
    BY <1>1 DEF Touched
  <2>3. /\ [session[s] EXCEPT !.expires = now + SessionTtl] \in SessionRow
        /\ [session[s] EXCEPT !.expires = now + SessionTtl].key = session[s].key
    BY <2>1 DEF SessionRow, AccountsInv, AccountsTypeOK
  <2>4. session[s] # NoSession
    BY <1>1 DEF Live
  <2> QED
    BY <2>2, <2>3, <2>4 DEF AccountsInv, AccountsTypeOK, SessionRows, RevokedStaysDead
<1>2. CASE ~Live(s)
  BY <1>2 DEF Touched, AccountsInv, AccountsTypeOK, SessionRows, RevokedStaysDead
<1> QED
  BY <1>1, <1>2

\* No step brings a revoked session back: a row appears under an id that was
\* never revoked, and a prolonged row was still there.
LEMMA SessionStep ==
  ASSUME AccountsInv, [CreateNext \/ SessionNext \/ CacheNext]_accountVars
  PROVE  SessionRows'
<1>0. SessionRows
  BY DEF AccountsInv, AccountsTypeOK, SessionRows
<1>1. CASE UNCHANGED <<session, revoked>>
  BY <1>0, <1>1 DEF SessionRows, RevokedStaysDead
<1>2. ASSUME NEW h \in Handlers, NEW s \in Sessions, CreateInsert(h, s) PROVE SessionRows'
  <2>1. req[h].key \in Keys
    BY <1>2 DEF CreateInsert, AccountsInv, AccountsTypeOK
  <2> QED
    BY <1>1, <1>2, <2>1, Opened DEF CreateInsert
<1>3. ASSUME NEW k \in Keys, NEW s \in Sessions, Connect(k, s) PROVE SessionRows'
  BY <1>1, <1>3, Opened DEF Connect
<1>4. ASSUME NEW h \in Handlers, Touch(h) PROVE SessionRows'
  <2>1. req[h].id \in Sessions
    BY <1>4 DEF Touch, AccountsInv, AccountsTypeOK
  <2> QED
    BY <1>4, <2>1, TouchKeeps DEF Touch
<1>5. ASSUME NEW h \in Handlers, NEW s \in Sessions, Revoke(h, s) PROVE SessionRows'
  <2>1. NoSession \in SessionRow
    BY DEF NoSession, SessionRow
  <2> QED
    BY <1>0, <1>5, <2>1 DEF Revoke, SessionRows, RevokedStaysDead
<1>6. ASSUME NEW h \in Handlers, CreateCharge(h) \/ CreateSubmit(h) \/ ThresholdRecord(h) \/ Recorded(h)
      PROVE  SessionRows'
  BY <1>1, <1>6 DEF CreateCharge, CreateSubmit, ThresholdRecord, Recorded, sessions
<1>7. ASSUME NEW h \in Handlers, NEW s, Authenticate(h, s) \/ CreateCheck(h, s) \/ ThresholdRead(h, s)
      PROVE  SessionRows'
  BY <1>1, <1>7 DEF Authenticate, CreateCheck, ThresholdRead, sessions
<1>8. ASSUME NEW h \in Handlers, NEW a, NEW e, ManageSigner(h, a, e) PROVE SessionRows'
  BY <1>1, <1>8 DEF ManageSigner, sessions
<1>9. CASE Restart \/ AccountTick \/ CacheNext \/ UNCHANGED accountVars
  BY <1>1, <1>9 DEF Restart, AccountTick, CacheNext, CacheTouch, CacheDrop, CacheSet, accountVars, sessions
<1> QED
  BY <1>2, <1>3, <1>4, <1>5, <1>6, <1>7, <1>8, <1>9
  DEF CreateNext, SessionNext, UpdatePolicy, RotateKey

\* The steps of the requests keep each one's key and session.
LEMMA RequestStep ==
  ASSUME AccountsInv, [CreateNext \/ SessionNext \/ CacheNext]_accountVars
  PROVE  /\ req' \in [Handlers -> Request]
         /\ \A g \in Handlers : req'[g].at # "idle" => req'[g].key \in Keys
         /\ \A g \in Handlers : req'[g].at = "touch" => req'[g].id \in Sessions
<1> DEFINE G == /\ req' \in [Handlers -> Request]
                /\ \A g \in Handlers : req'[g].at # "idle" => req'[g].key \in Keys
                /\ \A g \in Handlers : req'[g].at = "touch" => req'[g].id \in Sessions
<1>1. CASE UNCHANGED req
  BY <1>1 DEF AccountsInv, AccountsTypeOK
<1>2. ASSUME NEW h \in Handlers, Go(h, Idle) PROVE G
  BY <1>2, IdleRequest, RequestTypes DEF AccountsInv
<1>3. ASSUME NEW h \in Handlers, NEW a \in Stages \ {"touch"}, req[h].at # "idle",
             Go(h, [req[h] EXCEPT !.at = a])
      PROVE  G
  <2>1. req[h].key \in Keys
    BY <1>3 DEF AccountsInv, AccountsTypeOK
  <2> QED
    BY <1>3, <2>1, Moved, RequestTypes DEF AccountsInv
<1>4. ASSUME NEW h \in Handlers, NEW k \in Keys, CreateCheck(h, k) PROVE G
  <2>1. [at |-> "charge", key |-> k, id |-> "none"] \in Request
    BY DEF Request, Stages
  <2> QED
    BY <1>4, <2>1, RequestTypes DEF CreateCheck, AccountsInv
<1>5. ASSUME NEW h \in Handlers, NEW s \in Sessions, Authenticate(h, s) PROVE G
  <2>1. session[s].key \in Keys
    BY <1>5 DEF Authenticate, Live, AccountsInv, AccountsTypeOK
  <2>2. [at |-> "touch", key |-> session[s].key, id |-> s] \in Request
    BY <2>1 DEF Request, Stages
  <2> QED
    BY <1>5, <2>1, <2>2, RequestTypes DEF Authenticate, AccountsInv
<1>6. CASE Restart
  BY <1>6, IdleRequest DEF Restart
<1>7. ASSUME NEW h \in Handlers,
             CreateCharge(h) \/ CreateSubmit(h) \/ Touch(h) \/ ThresholdRecord(h) \/ Recorded(h)
      PROVE  G
  <2>1. Go(h, Idle) \/ \E a \in Stages \ {"touch"} : req[h].at # "idle" /\ Go(h, [req[h] EXCEPT !.at = a])
    BY <1>7 DEF CreateCharge, CreateSubmit, Touch, ThresholdRecord, Recorded, Stages
  <2> QED
    BY <2>1, <1>2, <1>3
<1>8. ASSUME NEW h \in Handlers, NEW s, CreateInsert(h, s) \/ Revoke(h, s) \/ ThresholdRead(h, s)
      PROVE  G
  <2>1. Go(h, Idle) \/ \E a \in Stages \ {"touch"} : req[h].at # "idle" /\ Go(h, [req[h] EXCEPT !.at = a])
    BY <1>8 DEF CreateInsert, Revoke, ThresholdRead, Stages
  <2> QED
    BY <2>1, <1>2, <1>3
<1>9. ASSUME NEW h \in Handlers, NEW a, NEW e, ManageSigner(h, a, e) PROVE G
  BY <1>9, <1>2 DEF ManageSigner
<1>10. ASSUME NEW k, NEW s, Connect(k, s) PROVE G
  BY <1>1, <1>10 DEF Connect
<1>11. CASE AccountTick \/ CacheNext \/ UNCHANGED accountVars
  BY <1>1, <1>11 DEF AccountTick, CacheNext, CacheTouch, CacheDrop, CacheSet, accountVars
<1> QED
  BY <1>4, <1>5, <1>6, <1>7, <1>8, <1>9, <1>10, <1>11
  DEF CreateNext, SessionNext, UpdatePolicy, RotateKey

\* What the log and the counters have in common.
SignerBooks ==
  /\ version \in [Keys -> Nat] /\ audit \in Seq(Event)
  /\ VersionsReached /\ NoLostSignerUpdate

\* An event of this life goes to the end of the log.
LEMMA Appended ==
  ASSUME AccountsInv, NEW e \in Event, audit' = Append(audit, e)
  PROVE  /\ audit' \in Seq(Event)
         /\ Len(audit') = Len(audit) + 1 /\ Len(audit) \in Nat
         /\ \A i \in 1..Len(audit) : audit'[i] = audit[i] /\ audit[i] \in Event
         /\ audit'[Len(audit) + 1] = e
  BY DEF AccountsInv, AccountsTypeOK

LEMMA Unmoved == ASSUME AccountsInv, UNCHANGED <<signers, life>> PROVE SignerBooks'
<1>1. version' = version /\ audit' = audit /\ life' = life
  BY DEF signers
<1>2. version \in [Keys -> Nat] /\ audit \in Seq(Event) /\ VersionsReached /\ NoLostSignerUpdate
  BY DEF AccountsInv, AccountsTypeOK
<1>3. VersionsReached'
  BY <1>1, <1>2 DEF VersionsReached
<1>4. NoLostSignerUpdate'
  BY <1>1, <1>2 DEF NoLostSignerUpdate
<1> QED
  BY <1>1, <1>2, <1>3, <1>4 DEF SignerBooks

\* No step reuses a version: an accepted update is written one past the counter
\* it moves, and a new process starts a new life.
LEMMA SignerStep ==
  ASSUME AccountsInv, [CreateNext \/ SessionNext \/ CacheNext]_accountVars
  PROVE  SignerBooks'
<1>1. ASSUME NEW h \in Handlers, NEW a \in {"add", "remove"}, NEW x \in Int, ManageSigner(h, a, x)
      PROVE  SignerBooks'
  <2> DEFINE k == req[h].key
             e == [type |-> a, key |-> k, version |-> version[k] + 1, expected |-> x, life |-> life]
  <2>1. k \in Keys /\ version[k] \in Nat /\ life \in Nat /\ version \in [Keys -> Nat]
    BY <1>1 DEF ManageSigner, AccountsInv, AccountsTypeOK
  <2>2. e \in Event /\ e.type = a /\ e.key = k /\ e.version = version[k] + 1 /\ e.life = life
    BY <2>1 DEF Event, EventTypes
  <2>3. audit' = Append(audit, e) /\ version' = [version EXCEPT ![k] = version[k] + 1] /\ life' = life
    BY <1>1 DEF ManageSigner, Log, Bump, timeVars
  <2> HIDE DEF e, k
  <2>4. /\ audit' \in Seq(Event)
        /\ Len(audit') = Len(audit) + 1 /\ Len(audit) \in Nat
        /\ \A i \in 1..Len(audit) : audit'[i] = audit[i] /\ audit[i] \in Event
        /\ audit'[Len(audit) + 1] = e
    BY <2>2, <2>3, Appended
  <2>5. /\ version' \in [Keys -> Nat] /\ version'[k] = version[k] + 1
        /\ \A q \in Keys : version[q] <= version'[q]
    BY <2>1, <2>3
  <2>6. ASSUME NEW i \in 1..Len(audit)
        PROVE  /\ audit[i].life \in Nat /\ audit[i].version \in Nat /\ audit[i].key \in Keys
               /\ audit[i].life <= life
               /\ audit[i].life = life /\ audit[i].type # "threshold" =>
                    audit[i].version <= version[audit[i].key]
    <3>1. audit[i] \in Event
      BY <2>4
    <3> QED
      BY <3>1 DEF AccountsInv, VersionsReached, Event
  <2>7. VersionsReached'
    <3> SUFFICES ASSUME NEW i \in 1..(Len(audit) + 1)
                 PROVE  /\ audit'[i].life <= life
                        /\ audit'[i].life = life /\ audit'[i].type # "threshold" =>
                             audit'[i].version <= version'[audit'[i].key]
      BY <2>3, <2>4 DEF VersionsReached
    <3>1. CASE i = Len(audit) + 1
      BY <3>1, <2>1, <2>2, <2>4, <2>5
    <3>2. CASE i \in 1..Len(audit)
      <4>1. audit'[i] = audit[i] /\ version[audit[i].key] <= version'[audit[i].key]
        BY <3>2, <2>4, <2>5, <2>6
      <4>2. version[audit[i].key] \in Nat /\ version'[audit[i].key] \in Nat
        BY <3>2, <2>1, <2>5, <2>6
      <4> QED
        BY <3>2, <4>1, <4>2, <2>6
    <3> QED
      BY <3>1, <3>2, <2>4
  <2>8. NoLostSignerUpdate'
    <3> SUFFICES ASSUME NEW i \in 1..(Len(audit) + 1), NEW j \in 1..(Len(audit) + 1), i # j,
                        audit'[i].type # "threshold", audit'[j].type # "threshold",
                        audit'[i].key = audit'[j].key, audit'[i].life = audit'[j].life
                 PROVE  audit'[i].version # audit'[j].version
      BY <2>4 DEF NoLostSignerUpdate
    <3>1. CASE i \in 1..Len(audit) /\ j \in 1..Len(audit)
      BY <3>1, <2>4 DEF AccountsInv, NoLostSignerUpdate
    <3>2. CASE i = Len(audit) + 1 /\ j \in 1..Len(audit)
      BY <3>2, <2>1, <2>2, <2>4, <2>6
    <3>3. CASE j = Len(audit) + 1 /\ i \in 1..Len(audit)
      BY <3>3, <2>1, <2>2, <2>4, <2>6
    <3> QED
      BY <3>1, <3>2, <3>3, <2>4
  <2> QED
    BY <2>4, <2>5, <2>7, <2>8 DEF SignerBooks
<1>2. ASSUME NEW h \in Handlers, ThresholdRecord(h) PROVE SignerBooks'
  <2> DEFINE e == [type |-> "threshold", key |-> req[h].key, version |-> 0,
                   expected |-> AnyVersion, life |-> life]
  <2>1. req[h].key \in Keys /\ life \in Nat /\ AnyVersion \in Int
    BY <1>2 DEF ThresholdRecord, AccountsInv, AccountsTypeOK, AnyVersion
  <2>2. e \in Event /\ e.type = "threshold" /\ e.life = life
    BY <2>1 DEF Event, EventTypes
  <2>3. audit' = Append(audit, e) /\ version' = version /\ life' = life
    BY <1>2 DEF ThresholdRecord, Log, timeVars
  <2> HIDE DEF e
  <2>4. /\ audit' \in Seq(Event)
        /\ Len(audit') = Len(audit) + 1 /\ Len(audit) \in Nat
        /\ \A i \in 1..Len(audit) : audit'[i] = audit[i] /\ audit[i] \in Event
        /\ audit'[Len(audit) + 1] = e
    BY <2>2, <2>3, Appended
  <2>5. \A i \in 1..Len(audit') : i \in 1..Len(audit) \/ i = Len(audit) + 1
    BY <2>4
  <2>6. VersionsReached'
    BY <2>1, <2>2, <2>3, <2>4, <2>5 DEF VersionsReached, AccountsInv
  <2>7. NoLostSignerUpdate'
    BY <2>2, <2>4, <2>5 DEF NoLostSignerUpdate, AccountsInv
  <2> QED
    BY <2>3, <2>4, <2>6, <2>7 DEF SignerBooks, AccountsInv, AccountsTypeOK
<1>3. CASE Restart
  <2>1. /\ life' = life + 1 /\ life \in Nat /\ audit' = audit /\ audit \in Seq(Event)
        /\ version' = [k \in Keys |-> 0]
    BY <1>3 DEF Restart, AccountsInv, AccountsTypeOK
  <2>2. \A i \in 1..Len(audit) : audit[i].life \in Nat /\ audit[i].life <= life
    <3> SUFFICES ASSUME NEW i \in 1..Len(audit) PROVE audit[i].life \in Nat /\ audit[i].life <= life
      OBVIOUS
    <3>1. audit[i] \in Event
      BY <2>1
    <3> QED
      BY <3>1 DEF Event, AccountsInv, VersionsReached
  <2>3. VersionsReached'
    BY <2>1, <2>2 DEF VersionsReached
  <2>4. NoLostSignerUpdate'
    BY <2>1 DEF AccountsInv, NoLostSignerUpdate
  <2> QED
    BY <2>1, <2>3, <2>4 DEF SignerBooks
<1>4. ASSUME NEW h \in Handlers, CreateCharge(h) \/ CreateSubmit(h) \/ Touch(h) \/ Recorded(h)
      PROVE  SignerBooks'
  BY <1>4, Unmoved DEF CreateCharge, CreateSubmit, Touch, Recorded, timeVars
<1>5. ASSUME NEW h \in Handlers, NEW s,
             \/ Authenticate(h, s) \/ CreateCheck(h, s) \/ ThresholdRead(h, s)
             \/ CreateInsert(h, s) \/ Revoke(h, s)
      PROVE  SignerBooks'
  BY <1>5, Unmoved DEF Authenticate, CreateCheck, ThresholdRead, CreateInsert, Revoke, timeVars
<1>6. ASSUME NEW k, NEW s, Connect(k, s) PROVE SignerBooks'
  BY <1>6, Unmoved DEF Connect, timeVars
<1>7. CASE AccountTick \/ CacheNext \/ UNCHANGED accountVars
  BY <1>7, Unmoved DEF AccountTick, CacheNext, CacheTouch, CacheDrop, CacheSet, accountVars, timeVars
<1>8. AnyVersion \in Int /\ 0 \in Int /\ 1 \in Int
  BY DEF AnyVersion
<1> QED
  BY <1>1, <1>2, <1>3, <1>4, <1>5, <1>6, <1>7, <1>8
  DEF CreateNext, SessionNext, UpdatePolicy, RotateKey

\* The clock and the counters are natural numbers, and the cached balance keeps
\* the order of its two times: only set moves them, and never the older past
\* the younger.
LEMMA CacheStep ==
  ASSUME AccountsInv, [CreateNext \/ SessionNext \/ CacheNext]_accountVars
  PROVE  CacheOrdered' /\ now' \in Nat /\ life' \in Nat /\ charged' \in Nat /\ sent' \in Nat
         /\ maxAge' \in BalanceMaxAges
<1> DEFINE G == CacheOrdered' /\ now' \in Nat /\ life' \in Nat /\ charged' \in Nat /\ sent' \in Nat
         /\ maxAge' \in BalanceMaxAges
<1>0. now \in Nat /\ life \in Nat /\ charged \in Nat /\ sent \in Nat /\ maxAge \in BalanceMaxAges
  BY DEF AccountsInv, AccountsTypeOK
<1>1. CASE UNCHANGED <<timeVars, charged, sent, cached>>
  BY <1>0, <1>1 DEF AccountsInv, CacheOrdered, timeVars
<1>2. ASSUME NEW h \in Handlers, CreateCharge(h) \/ CreateSubmit(h) PROVE G
  BY <1>0, <1>2 DEF CreateCharge, CreateSubmit, AccountsInv, CacheOrdered, timeVars
<1>3. ASSUME NEW p \in BOOLEAN, CacheSet(p) PROVE G
  BY <1>0, <1>3 DEF CacheSet, AccountsInv, CacheOrdered, timeVars, creation
<1>4. CASE CacheTouch
  <2>1. cached.present /\ UNCHANGED <<timeVars, creation>>
    BY <1>4 DEF CacheTouch
  <2>2. CASE cached' = NoBalance
    BY <1>0, <2>1, <2>2 DEF NoBalance, CacheOrdered, timeVars, creation
  <2>3. CASE cached' = TouchedEntry(cached)
    <3>1. cached'.created = cached.created /\ cached'.written = cached.written
      BY <2>3 DEF TouchedEntry
    <3> QED
      BY <1>0, <2>1, <3>1 DEF AccountsInv, CacheOrdered, timeVars, creation
  <2> QED
    BY <1>4, <2>2, <2>3 DEF CacheTouch
<1>5. CASE CacheDrop
  BY <1>0, <1>5 DEF CacheDrop, NoBalance, CacheOrdered, timeVars, creation
<1>6. CASE AccountTick
  BY <1>0, <1>6 DEF AccountTick, AccountsInv, CacheOrdered, creation
<1>7. CASE Restart
  BY <1>0, <1>7 DEF Restart, NoBalance, CacheOrdered, creation
<1>8. ASSUME NEW h \in Handlers, Touch(h) \/ ThresholdRecord(h) \/ Recorded(h) PROVE G
  BY <1>1, <1>8 DEF Touch, ThresholdRecord, Recorded, creation
<1>9. ASSUME NEW h \in Handlers, NEW s,
             \/ Authenticate(h, s) \/ CreateCheck(h, s) \/ ThresholdRead(h, s)
             \/ CreateInsert(h, s) \/ Revoke(h, s)
      PROVE  G
  BY <1>1, <1>9 DEF Authenticate, CreateCheck, ThresholdRead, CreateInsert, Revoke, creation
<1>10. ASSUME NEW h \in Handlers, NEW a, NEW e, ManageSigner(h, a, e) PROVE G
  BY <1>1, <1>10 DEF ManageSigner, creation
<1>11. ASSUME NEW k, NEW s, Connect(k, s) PROVE G
  BY <1>1, <1>11 DEF Connect, creation
<1>12. CASE UNCHANGED accountVars
  BY <1>1, <1>12 DEF accountVars, creation
<1> QED
  BY <1>2, <1>3, <1>4, <1>5, <1>6, <1>7, <1>8, <1>9, <1>10, <1>11, <1>12
  DEF CreateNext, SessionNext, CacheNext, UpdatePolicy, RotateKey

LEMMA NextAccounts ==
  AccountsInv /\ [CreateNext \/ SessionNext \/ CacheNext]_accountVars => AccountsInv'
<1> SUFFICES ASSUME AccountsInv, [CreateNext \/ SessionNext \/ CacheNext]_accountVars
             PROVE  AccountsInv'
  OBVIOUS
<1>1. AccountsTypeOK'
  BY SessionStep, RequestStep, SignerStep, CacheStep DEF AccountsTypeOK, SessionRows, SignerBooks
<1> QED
  BY <1>1, BooksStep, SessionStep, SignerStep, CacheStep DEF AccountsInv, SessionRows, SignerBooks

\* POST /wallet/create never leaves a wallet row without its account, and hands
\* the submitter no deployment the create budget was not charged for, for every
\* number of handlers, keys and restarts.
THEOREM WalletsAreRealAndMetered == AccountsSpec => []CreatedOnceAndMetered
<1>1. AccountsInv => CreatedOnceAndMetered
  BY PendingFinite DEF AccountsInv, AccountsTypeOK, CreationBooks, CreatedOnceAndMetered
<1> QED
  BY <1>1, InitAccounts, NextAccounts, PTL DEF AccountsSpec

\* No revoked session comes back, no two signer updates of one life are accepted
\* against one version, and a cache that is given an absolute age serves no balance
\* past it (without one nothing is claimed), with all the routes of the service
\* interleaved.
THEOREM NothingComesBack == AccountsSpec => []NothingStaleRevives
<1>1. AccountsInv => BalanceAgeBounded
  <2> SUFFICES ASSUME AccountsInv, maxAge # NoMaxAge, cached.present, ~Expired(cached)
               PROVE  now - cached.written <= maxAge
    BY DEF BalanceAgeBounded
  <2>1. now - cached.created <= maxAge
    <3>1. now \in Nat /\ cached.created \in Nat /\ maxAge \in Nat
      BY AccountConstants DEF AccountsInv, AccountsTypeOK, CacheOrdered
    <3> QED
      BY <3>1 DEF Expired
  <2>2. maxAge \in Nat
    BY AccountConstants DEF AccountsInv, AccountsTypeOK
  <2> QED
    BY <2>1, <2>2 DEF AccountsInv, AccountsTypeOK, CacheOrdered
<1>2. AccountsInv => NothingStaleRevives
  BY <1>1 DEF AccountsInv, NothingStaleRevives
<1> QED
  BY <1>2, InitAccounts, NextAccounts, PTL DEF AccountsSpec
=============================================================================
