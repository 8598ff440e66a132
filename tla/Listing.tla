------------------------------ MODULE Listing ------------------------------
(***************************************************************************)
(* The keyset-paged lists: an account's transactions (wallet-service, over *)
(* the audit log), the policies (policy-service) and the verification      *)
(* records, each from the in-memory repository or from Postgres.  A client *)
(* walks a list page by page with the cursor of the last row it was given, *)
(* while rows are inserted and change status under it.                     *)
(*                                                                         *)
(* Ids are compared as the code compares them; the number an id stands for *)
(* says nothing of when its row was inserted (UUIDs).                      *)
(***************************************************************************)
EXTENDS Integers, FiniteSets, Sequences, SequencesExt

CONSTANTS RowIds,         \* a set of integers
          Statuses,
          MaxInstant,     \* createdAt, in the millisecond a Date keeps
          PageMax,        \* the route's largest limit
          MaxChanges

ASSUME ListingAssumption == RowIds \subseteq Int /\ MaxInstant \in Nat /\ PageMax \in Nat \ {0}

VARIABLES
  rows,      \* id |-> [at, status, actor], of the rows inserted so far
  store,     \* "memory" or "pg"
  query,     \* the walk's filter: [status, actor, from, limit], or idle
  cursor,    \* the nextCursor to ask with: [at, id], NoCursor before the first page
  pages,     \* the ids the walk was given, in order
  steady,    \* the rows there when the walk began whose status has not changed since
  changes

listVars == <<rows, store, query, cursor, pages, steady, changes>>

Actors   == {"c1", "c2"}
NoCursor == [at |-> -1, id |-> 0]
NoQuery  == [name |-> "idle", status |-> "any", actor |-> "any", from |-> 0, limit |-> 1]

ListInit ==
  /\ rows = <<>> /\ store \in {"memory", "pg"} /\ query = NoQuery /\ cursor = NoCursor
  /\ pages = <<>> /\ steady = {} /\ changes = 0

-----------------------------------------------------------------------------
(* The rows a filter keeps: the audit log's by type and actor, the         *)
(* policies' by status and date, the verification records' by status.      *)

AuditFilter(q, r)        == q.status \in {"any", r.status} /\ r.actor = q.actor
PolicyFilter(q, r)       == q.status \in {"any", r.status} /\ r.at >= q.from
VerificationFilter(q, r) == q.status \in {"any", r.status}

Keeps(q) == {i \in DOMAIN rows : CASE q.name = "transactions" -> AuditFilter(q, rows[i])
                                   [] q.name = "policies"     -> PolicyFilter(q, rows[i])
                                   [] OTHER                   -> VerificationFilter(q, rows[i])}

\* Mutant: the page goes on after the cursor's instant.
BeyondIgnoringTies(i, c) == c = NoCursor \/ rows[i].at < c.at

\* createdAt alone is not a total order: the id breaks ties.
Beyond(i, c) == c = NoCursor \/ rows[i].at < c.at \/ (rows[i].at = c.at /\ i < c.id)

\* The rows listed before a row.
Newer == [i \in DOMAIN rows |-> {j \in DOMAIN rows : rows[j].at > rows[i].at \/ (rows[j].at = rows[i].at /\ j > i)}]

\* A set in an order: the n-th element has n - 1 before it.
Ordered(S, before) ==
  [n \in 1..Cardinality(S) |-> CHOOSE i \in S : Cardinality(S \cap before[i]) = n - 1]

\* The entries of a list at some of its positions, in the list's order.
EntriesAt(list, at) ==
  LET places == Ordered(at, [i \in at |-> {j \in at : j < i}])
  IN  [n \in 1..Cardinality(at) |-> list[places[n]]]

Take(list, n) == SubSeq(list, 1, IF Len(list) > n THEN n ELSE Len(list))

\* Everything is sorted, then cut at the cursor, then at the limit.
MemoryPage(q, c) ==
  LET sorted == Ordered(Keeps(q), Newer)
      after  == EntriesAt(sorted, {n \in DOMAIN sorted : Beyond(sorted[n], c)})
  IN  [page |-> Take(after, q.limit), hasMore |-> Len(after) > q.limit]

\* One row more than the page is asked for, to learn whether there is more.
PgPage(q, c) ==
  LET fetched == Take(Ordered({i \in Keeps(q) : Beyond(i, c)}, Newer), q.limit + 1)
  IN  [page |-> Take(fetched, q.limit), hasMore |-> Len(fetched) > q.limit]

Page(q, c) == IF store = "pg" THEN PgPage(q, c) ELSE MemoryPage(q, c)

-----------------------------------------------------------------------------
\* A row is stamped before it is inserted, so its instant may lie behind a walk already under way.
Insert(i, row) ==
  /\ i \notin DOMAIN rows
  /\ rows' = [j \in DOMAIN rows \cup {i} |-> IF j = i THEN row ELSE rows[j]]
  /\ UNCHANGED <<store, query, cursor, pages, steady, changes>>

\* Policies and verification records change status; audit events do not.
ChangeStatus(i, s) ==
  /\ query.name # "transactions" /\ rows[i].status # s /\ changes < MaxChanges /\ changes' = changes + 1
  /\ rows' = [rows EXCEPT ![i].status = s] /\ steady' = steady \ {i}
  /\ UNCHANGED <<store, query, cursor, pages>>

\* The page after the cursor, whose last row is the next one.
Answer(q, c, seen) ==
  LET got == Page(q, c)
  IN  /\ pages' = seen \o got.page
      /\ cursor' = IF got.hasMore THEN [at |-> rows[Last(got.page)].at, id |-> Last(got.page)] ELSE NoCursor
      /\ query' = IF got.hasMore THEN q ELSE [q EXCEPT !.limit = 0]

\* A limit past the largest is brought down to it; limit 0 marks a walk that was told there is no more.
BeginPage(q) ==
  /\ query = NoQuery /\ Answer([q EXCEPT !.limit = IF @ > PageMax THEN PageMax ELSE @], NoCursor, <<>>)
  /\ steady' = DOMAIN rows
  /\ UNCHANGED <<rows, store, changes>>

ListTransactions(q) == q.name = "transactions" /\ q.from = 0 /\ BeginPage(q)
ListPolicies(q)     == q.name = "policies" /\ q.actor = "c1" /\ BeginPage(q)

NextPage ==
  /\ query.name # "idle" /\ cursor # NoCursor
  /\ Answer(query, cursor, pages)
  /\ UNCHANGED <<rows, store, steady, changes>>

\* No route calls the verification records' list yet.
ListVerifications(q) == q.name = "verifications" /\ q.actor = "c1" /\ q.from = 0 /\ BeginPage(q)

Queries == [name : {"transactions", "policies", "verifications"}, status : {"any"} \cup Statuses,
            actor : Actors, from : {0, 1}, limit : {1, PageMax + 1}]

ListNext ==
  \/ NextPage
  \/ \E q \in Queries : ListTransactions(q) \/ ListPolicies(q) \/ ListVerifications(q)
  \/ \E i \in RowIds, row \in [at : 0..MaxInstant, status : Statuses, actor : Actors] : Insert(i, row)
  \/ \E i \in DOMAIN rows, s \in Statuses : ChangeStatus(i, s)

-----------------------------------------------------------------------------
\* However rows were inserted or changed under the walk, it was given no row twice, and a walk told there is no
\* more was given every row of its filter that stood unchanged from its beginning; and the two repositories
\* would give the same page ("Shape and semantics must match createMemoryPolicyRepository exactly",
\* policy-service db/pg-repository.ts).
PagesComplete ==
  /\ Cardinality(ToSet(pages)) = Len(pages)
  /\ query.limit = 0 => steady \cap Keeps(query) \subseteq ToSet(pages)
  /\ query.limit > 0 => MemoryPage(query, cursor) = PgPage(query, cursor)
=============================================================================
