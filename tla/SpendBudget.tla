----------------------------- MODULE SpendBudget -----------------------------
(***************************************************************************)
(* The rolling-window spend budget that wallet-service and policy-service  *)
(* share (service-kit): tryConsume records a row in spend_ledger when the  *)
(* rows of the last windowMs and this one stay within the line's ceilings, *)
(* and refuses otherwise.  The caller funds a transaction only on ok.      *)
(*                                                                         *)
(* One SQL statement is one step.  Both clock readings are taken before    *)
(* the transaction, so a caller may wait on the advisory lock with an old  *)
(* window; the callers sit on replicas whose clocks disagree.  Rows are    *)
(* visible to others at commit (READ COMMITTED).  No caller passes a       *)
(* count, so every row counts one call.  The network is fixed by the       *)
(* server's configuration and is left out of the key.                      *)
(***************************************************************************)
EXTENDS Integers, FiniteSets, FiniteSetsExt

CONSTANTS
  Caller,      \* calls of tryConsume; each is the id of the row it may insert
  Line,        \* budget lines
  LineOf,      \* caller -> the line it spends on
  Cost,        \* caller -> the stroops it asks for
  Skew,        \* caller -> how far its replica's clock is off
  NoCaller,
  NoCeiling,   \* maxStroops of a count-only line
  maxCount,    \* line -> calls per window
  maxStroops,  \* line -> stroops per window, or NoCeiling
  windowMs,
  MaxTime      \* bound on the clock

ASSUME BudgetConstants ==
  /\ IsFiniteSet(Caller)
  /\ NoCaller \notin Caller
  /\ NoCeiling \notin Nat
  /\ LineOf \in [Caller -> Line]
  /\ Cost \in [Caller -> Nat]
  /\ Skew \in [Caller -> Int]
  /\ maxCount \in [Line -> Nat]
  /\ maxStroops \in [Line -> Nat \cup {NoCeiling}]
  /\ windowMs \in Nat
  /\ MaxTime \in Nat

VARIABLES
  clock,        \* the true time
  pc,           \* caller -> where tryConsume is
  windowStart,  \* caller -> the window it computed before the transaction
  at,           \* caller -> the timestamp its row carries or will carry
  lock,         \* line -> holder of pg_advisory_xact_lock
  ledger        \* ids of the committed rows of spend_ledger

vars == <<clock, pc, windowStart, at, lock, ledger>>

Settled == {"ok", "refused", "threw"}

\* A row keeps the line, the cost and the timestamp of the call that made it.
Recent(line, start) == {c \in ledger : LineOf[c] = line /\ at[c] > start}

Stroops(rows) == MapThenSumSet(LAMBDA c : Cost[c], rows)

\* Mutant: the sum is compared before this call's stroops are added to it.
AffordableBefore(c) ==
  LET agg == Recent(LineOf[c], windowStart[c])
  IN  /\ Cardinality(agg) + 1 <= maxCount[LineOf[c]]
      /\ maxStroops[LineOf[c]] = NoCeiling \/ Stroops(agg) <= maxStroops[LineOf[c]]

\* The WHERE clause of the conditional INSERT, over the rows it can see.
Affordable(c) ==
  LET line == LineOf[c]
      agg  == Recent(line, windowStart[c])
  IN  /\ Cardinality(agg) + 1 <= maxCount[line]
      /\ \/ maxStroops[line] = NoCeiling
         \/ Stroops(agg) + Cost[c] <= maxStroops[line]

Init ==
  /\ clock = 0
  /\ pc = [c \in Caller |-> "idle"]
  /\ windowStart = [c \in Caller |-> 0]
  /\ at = [c \in Caller |-> 0]
  /\ lock = [l \in Line |-> NoCaller]
  /\ ledger = {}

\* now() is read twice, and the clock may move on in between.
Begin(c) ==
  /\ pc[c] = "idle"
  /\ \E t \in {clock + Skew[c], clock + Skew[c] + 1} :
       /\ windowStart' = [windowStart EXCEPT ![c] = clock + Skew[c] - windowMs]
       /\ at' = [at EXCEPT ![c] = t]
  /\ pc' = [pc EXCEPT ![c] = "waiting"]
  /\ UNCHANGED <<clock, lock, ledger>>

\* Mutant: the callers of a line do not serialize before the aggregate read.
LockWithoutWaiting(c) ==
  /\ pc[c] = "waiting"
  /\ lock' = [lock EXCEPT ![LineOf[c]] = c]
  /\ pc' = [pc EXCEPT ![c] = "locked"]
  /\ UNCHANGED <<clock, windowStart, at, ledger>>

Lock(c) ==
  /\ pc[c] = "waiting"
  /\ lock[LineOf[c]] = NoCaller
  /\ lock' = [lock EXCEPT ![LineOf[c]] = c]
  /\ pc' = [pc EXCEPT ![c] = "locked"]
  /\ UNCHANGED <<clock, windowStart, at, ledger>>

\* The aggregate and the INSERT are one statement; its row is not visible yet.
CheckAndInsert(c) ==
  /\ pc[c] = "locked"
  /\ pc' = [pc EXCEPT ![c] = IF Affordable(c) THEN "inserted" ELSE "empty"]
  /\ UNCHANGED <<clock, windowStart, at, lock, ledger>>

Unlock(c) == lock' = [lock EXCEPT ![LineOf[c]] = NoCaller]

\* The call is over: its locals are gone, a committed row keeps its timestamp.
Forget(c) ==
  /\ windowStart' = [windowStart EXCEPT ![c] = 0]
  /\ at' = [at EXCEPT ![c] = IF c \in ledger' THEN at[c] ELSE 0]

\* Mutant: the number of rows RETURNING gave is not looked at.
CommitWithoutRows(c) ==
  /\ pc[c] \in {"inserted", "empty"}
  /\ ledger' = IF pc[c] = "inserted" THEN ledger \cup {c} ELSE ledger
  /\ pc' = [pc EXCEPT ![c] = "ok"]
  /\ Unlock(c)
  /\ Forget(c)
  /\ UNCHANGED clock

\* The transaction commits and its lock goes; the answer may be lost on the way.
Commit(c) ==
  /\ pc[c] \in {"inserted", "empty"}
  /\ ledger' = IF pc[c] = "inserted" THEN ledger \cup {c} ELSE ledger
  /\ pc' \in {[pc EXCEPT ![c] = IF pc[c] = "inserted" THEN "ok" ELSE "refused"],
              [pc EXCEPT ![c] = "threw"]}
  /\ Unlock(c)
  /\ Forget(c)
  /\ UNCHANGED clock

\* A statement fails or the caller's process dies: rollback releases the lock.
Abort(c) ==
  /\ pc[c] \in {"waiting", "locked", "inserted", "empty"}
  /\ pc' = [pc EXCEPT ![c] = "threw"]
  /\ IF pc[c] = "waiting" THEN UNCHANGED lock ELSE Unlock(c)
  /\ UNCHANGED <<clock, ledger>>
  /\ Forget(c)

Tick ==
  /\ clock < MaxTime
  /\ clock' = clock + 1
  /\ UNCHANGED <<pc, windowStart, at, lock, ledger>>

tryConsume(c) == Begin(c) \/ Lock(c) \/ CheckAndInsert(c) \/ Commit(c) \/ Abort(c)

Next == Tick \/ \E c \in Caller : tryConsume(c)

Spec == Init /\ [][Next]_vars

------------------------------------------------------------------------------
Phases == {"idle", "waiting", "locked", "inserted", "empty"} \cup Settled

\* The transaction of c has the advisory lock of its line.
Holds(c) == pc[c] \in {"locked", "inserted", "empty"}

\* The variables have their types, and the advisory lock of a line is held by
\* exactly the call whose transaction is past the first statement.
TypeOK ==
  /\ clock \in Nat
  /\ pc \in [Caller -> Phases]
  /\ windowStart \in [Caller -> Int]
  /\ at \in [Caller -> Int]
  /\ lock \in [Line -> Caller \cup {NoCaller}]
  /\ ledger \subseteq Caller
  /\ \A c \in Caller : Holds(c) <=> lock[LineOf[c]] = c

Window(line, x) == {c \in ledger : LineOf[c] = line /\ at[c] > x /\ at[c] <= x + windowMs}

\* The fullest windows begin just before a row.
Starts == {at[c] - 1 : c \in ledger}

\* RA-2: however the callers interleave, wait with stale clock readings or sit
\* on skewed replicas, no window of windowMs holds more rows of a line than its
\* maxCount.
CountCeiling ==
  \A line \in Line : \A x \in Starts : Cardinality(Window(line, x)) <= maxCount[line]

\* The same for the stroops those rows record, on a line that caps them.
StroopsCeiling ==
  \A line \in Line : maxStroops[line] # NoCeiling =>
    \A x \in Starts : Stroops(Window(line, x)) <= maxStroops[line]

\* Fail closed: whoever is told ok has a row that later callers will count; an
\* error or a lost answer never lets an unrecorded call spend.
NoUnmeteredGrant == \A c \in Caller : pc[c] = "ok" => c \in ledger
==============================================================================
