------------------------------ MODULE Activity ------------------------------
(***************************************************************************)
(* The dashboard's activity panel: lib/history.ts and history-parse.ts,    *)
(* which read an account's history backwards, window by window, from an    *)
(* RPC node that only streams forwards and, for a classic account, from    *)
(* Horizon; lib/activity.ts, which keeps the pages; and                    *)
(* dashboard/activity.tsx, which shows them.  An event is its place in the *)
(* ledger and what the code finds out about it; a timestamp is the ledger  *)
(* (the ADR saw rows for which it was not; what is claimed of the panel is *)
(* not about the order of its rows).                                       *)
(***************************************************************************)
EXTENDS Integers, FiniteSets, Sequences, SequencesExt

CONSTANTS WINDOW_LEDGERS,   \* ledgers of a window
          SCAN_PAGE_SIZE, MAX_SCAN_PAGES,   \* events of a request, requests of a scan
          HISTORY_PAGE_SIZE, HISTORY_DISPLAY_LIMIT,
          Retention,        \* ledgers behind the head the node keeps
          Contents,         \* what one ledger may hold: sequences of event kinds
          Operations,       \* what Horizon may hold for a classic account, oldest first
          MaxHead, MaxHistoryPages

\* The node keeps more than a page may widen its window to: hours of ledgers
\* against minutes.
ASSUME ActivityAssumption ==
  /\ {WINDOW_LEDGERS, HISTORY_PAGE_SIZE, SCAN_PAGE_SIZE} \subseteq Nat \ {0}
  /\ {HISTORY_DISPLAY_LIMIT, Retention, MaxHead} \subseteq Nat
  /\ MAX_SCAN_PAGES \in Nat /\ MAX_SCAN_PAGES > 1
  /\ Retention > 2 * WINDOW_LEDGERS /\ MaxHead > Retention
  /\ Contents \subseteq Seq(STRING) /\ Operations \subseteq Seq([at : 1..MaxHead, kind : STRING])

VARIABLES
  ledgers,      \* ledgers[l]: the kinds of the events of ledger l
  classic,      \* whether the account is a G address
  operations,   \* its classic operations, oldest first: [at, kind]
  assetCache,   \* the token contract that is not pinned: "absent", "named" or "unnamed"
  load,         \* the fetch under way: [step, want, built, latest, oldest, from, to, events, unread]
  pages,        \* the infinite query's data
  failedLoad    \* the last fetch ended in an error

activityVars == <<ledgers, classic, operations, assetCache, load, pages, failedLoad>>

NoCursor == [e |-> <<>>, o |-> 0]
NoLoad   == [step |-> "idle", want |-> 0, built |-> <<>>, latest |-> 0, oldest |-> 0,
             from |-> 0, to |-> 0, events |-> <<>>, unread |-> 0]
MaxOf(a, b) == IF a > b THEN a ELSE b
MinOf(a, b) == IF a < b THEN a ELSE b

\* The entries of a sequence at some of its places, in order.
EntriesOf(s, at) == FlattenSeq([i \in DOMAIN s |-> IF i \in at THEN <<s[i]>> ELSE <<>>])

ActivityInit ==
  /\ ledgers \in [1..(Retention + 1) -> Contents]
  /\ classic \in BOOLEAN
  /\ operations \in IF classic THEN Operations ELSE {<<>>}
  /\ assetCache = "absent" /\ load = NoLoad /\ pages = <<>> /\ failedLoad = FALSE

-----------------------------------------------------------------------------
(* The node.                                                               *)

Oldest(head) == head - Retention

EventsOf(l) == [n \in DOMAIN ledgers[l] |-> [rail |-> "soroban", at |-> l, n |-> n, kind |-> ledgers[l][n]]]

\* What getEvents streams, oldest first.
Stream(from, to) == FlattenSeq([k \in 1..(to + 1 - from) |-> EventsOf(from + k - 1)])

\* The loop over scan requests.  The first one ends before its endLedger; the others carry only the cursor,
\* which leads on to the head.  Where its range is exhausted the node may return a cursor all the same.
\* "unread" is history: the ledger from which some events of the window were not read.
Scans(from, to) ==
  LET window == Stream(from, to - 1)
      onward == Stream(from, Len(ledgers))
      budget == MinOf(SCAN_PAGE_SIZE, Len(window)) + (MAX_SCAN_PAGES - 1) * SCAN_PAGE_SIZE
  IN  {[events |-> SubSeq(onward, 1, MinOf(budget, Len(onward))),
        unread |-> IF budget < Len(onward) THEN onward[budget].at ELSE to + 1]}
        \cup {scan \in {[events |-> window, unread |-> to]} : Len(window) < SCAN_PAGE_SIZE}

CloseLedger ==
  /\ Len(ledgers) < MaxHead
  /\ \E kinds \in Contents : ledgers' = Append(ledgers, kinds)
  /\ UNCHANGED <<classic, operations, assetCache, load, pages, failedLoad>>

-----------------------------------------------------------------------------
(* Rows.                                                                   *)

\* A transfer of the account, one in a token that is not pinned, one between
\* other accounts, one whose amount cannot be decoded; "fee" and "approve"
\* events are no transfers.
isSACTransferEvent(e) == e.kind \in {"own", "token", "others", "garbled"}

parseSACTransfer(e) == isSACTransferEvent(e) /\ e.kind # "garbled"

\* A bug: trims the rail to a page, past which no cursor of it leads.
SorobanRowsTrimmed(events, asset) ==
  LET shown == {i \in DOMAIN events : parseSACTransfer(events[i]) /\ (events[i].kind = "token" => asset = "named")}
      rows  == Reverse(EntriesOf(events, shown))
  IN  SubSeq(rows, 1, MinOf(HISTORY_PAGE_SIZE, Len(rows)))

\* buildSorobanRail: no row without its asset; the ascending stream reversed.
SorobanRows(events, asset) ==
  LET shown == {i \in DOMAIN events : parseSACTransfer(events[i]) /\ (events[i].kind = "token" => asset = "named")}
  IN  Reverse(EntriesOf(events, shown))

\* resolveAsset: asked once, and the answer kept, a failed one too.
ResolvedAs(events) ==
  IF assetCache # "absent" \/ \A i \in DOMAIN events : events[i].kind # "token"
  THEN {assetCache} ELSE {"named", "unnamed"}

\* Horizon's operations, newest first, from the cursor on.
OperationsPage(o) ==
  LET before == IF o = 0 THEN Len(operations) ELSE o - 1
      count  == MinOf(HISTORY_PAGE_SIZE, before)
  IN  [k \in 1..count |-> before + 1 - k]

\* classicOpToRow drops what is not shaped like a transfer.
ClassicRow(t) == operations[t].kind \in {"payment", "invoke"}
ClassicRows(tokens) ==
  LET kept == EntriesOf(tokens, {k \in DOMAIN tokens : ClassicRow(tokens[k])})
  IN  [k \in DOMAIN kept |->
         [rail |-> "classic", at |-> operations[kept[k]].at, n |-> kept[k], kind |-> operations[kept[k]].kind]]

\* The display order of a page: newest first, ties in the order they came.
ByTime(rows) ==
  FlattenSeq([k \in 1..MaxHead |-> EntriesOf(rows, {i \in DOMAIN rows : rows[i].at = MaxHead + 1 - k})])

-----------------------------------------------------------------------------
(* fetchPage.                                                              *)

Cursor == IF load.built = <<>> THEN NoCursor ELSE Last(load.built).next
Carried == Cursor.e # <<>>

ReadHealth ==
  /\ load.step = "health"
  /\ LET latest == Len(ledgers)
         oldest == Oldest(latest)
     IN  load' = [load EXCEPT !.step = "scan", !.latest = latest, !.oldest = oldest,
                  !.from = IF Carried THEN Cursor.e[1] ELSE MaxOf(oldest, latest - WINDOW_LEDGERS),
                  !.to = IF Carried THEN Cursor.e[2] ELSE latest]
  /\ UNCHANGED <<ledgers, classic, operations, assetCache, pages, failedLoad>>

\* A first page with too few transfers widens its window once, and stops
\* without reading it when it would reach the retention's end.
TooQuiet(events) ==
  Cardinality({i \in DOMAIN events : isSACTransferEvent(events[i])}) < HISTORY_PAGE_SIZE /\ ~Carried

\* The node refuses a window that begins before what it keeps.
ScanWindow ==
  /\ load.step \in {"scan", "widened"}
  /\ load.from >= Oldest(Len(ledgers))
  /\ \E scan \in Scans(load.from, load.to) :
       LET wider == MaxOf(load.oldest, load.from - WINDOW_LEDGERS)
           read  == [load EXCEPT !.events = scan.events, !.step = "assemble", !.unread = scan.unread]
       IN  load' = IF load.step = "scan" /\ TooQuiet(scan.events)
                   THEN [read EXCEPT !.from = wider, !.to = load.latest,
                                     !.step = IF wider <= load.oldest THEN "assemble" ELSE "widened"]
                   ELSE read
  /\ UNCHANGED <<ledgers, classic, operations, assetCache, pages, failedLoad>>

\* Where the next window ends: before the oldest event read, or before this
\* window when it was empty.
ResumeBefore(events, from, oldest) ==
  IF events # <<>> THEN events[1].at - 1 ELSE MaxOf(oldest, from - 1)

\* The packed cursor: both rails' resume points, an absent one left out, which
\* decodes like the beginning of that rail.
encodePageCursor(window, token) == [e |-> window, o |-> token]

NextCursor(to, oldest, ops) ==
  LET window    == IF to > oldest THEN <<MaxOf(oldest, to + 1 - WINDOW_LEDGERS), to>> ELSE <<>>
      token     == IF ops = <<>> THEN 0 ELSE Last(ops)
      exhausted == ~classic \/ Len(ops) < HISTORY_PAGE_SIZE
  IN  IF window = <<>> /\ exhausted THEN NoCursor ELSE encodePageCursor(window, token)

\* Horizon, for a classic account only, then the assets, then the page.
\* "window" and "unread" are history: the ledgers it was to show, and what of them it did not read.
Assemble ==
  /\ load.step = "assemble"
  /\ \E asset \in ResolvedAs(load.events) :
       LET ops  == IF classic THEN OperationsPage(Cursor.o) ELSE <<>>
           to   == ResumeBefore(load.events, load.from, load.oldest)
           page == [rows |-> ByTime(SorobanRows(load.events, asset) \o ClassicRows(ops)),
                    next |-> NextCursor(to, load.oldest, ops),
                    unread |-> load.unread, window |-> <<to + 1, load.to>>]
           built == Append(load.built, page)
       IN  /\ assetCache' = asset
           /\ IF Len(built) < load.want /\ page.next # NoCursor
              THEN /\ load' = [NoLoad EXCEPT !.step = "health", !.want = load.want, !.built = built]
                   /\ UNCHANGED <<pages, failedLoad>>
              ELSE load' = NoLoad /\ pages' = built /\ failedLoad' = FALSE
  /\ UNCHANGED <<ledgers, classic, operations>>

\* withTransientRetry runs a call again as it was, and gives up; any other
\* error ends the fetch at once.  The pages already there stay.
FetchFails ==
  /\ load.step # "idle" /\ load' = NoLoad /\ failedLoad' = TRUE
  /\ UNCHANGED <<ledgers, classic, operations, assetCache, pages>>

-----------------------------------------------------------------------------
(* The query and the panel.                                                *)

AllRows == FlattenSeq([p \in DOMAIN pages |-> pages[p].rows])

\* flattenPages keeps the first row of an id; the panel shows the first 50.
FlattenPages ==
  EntriesOf(AllRows, {i \in DOMAIN AllRows : \A j \in 1..(i - 1) : AllRows[j] # AllRows[i]})
Displayed == SubSeq(FlattenPages, 1, MinOf(HISTORY_DISPLAY_LIMIT, Len(FlattenPages)))
HasNextPage == pages # <<>> /\ Last(pages).next # NoCursor

PanelShows ==
  IF failedLoad THEN "unavailable"
  ELSE IF pages = <<>> THEN "loading"
  ELSE IF Displayed = <<>> THEN "no transactions yet" ELSE "rows"

\* An error without data is forgotten when the next fetch begins.
Begin(want, built) ==
  /\ load' = [NoLoad EXCEPT !.step = "health", !.want = want, !.built = built]
  /\ failedLoad' = (failedLoad /\ pages # <<>>)
  /\ UNCHANGED <<ledgers, classic, operations, assetCache, pages>>

\* "Load older" is part of the list; it may be pressed during a refresh, which it cancels.
LoadOlder == /\ PanelShows = "rows" /\ HasNextPage /\ Len(pages) < MaxHistoryPages
             /\ load.want <= Len(pages)
             /\ Begin(Len(pages) + 1, pages)

\* Mounting, "Refresh", "Retry": every page is fetched again.
Refetch == load.step = "idle" /\ Begin(MaxOf(1, Len(pages)), <<>>)

ActivityNext ==
  CloseLedger \/ ReadHealth \/ ScanWindow \/ Assemble \/ FetchFails \/ LoadOlder \/ Refetch

-----------------------------------------------------------------------------
(* Properties.                                                             *)

\* Between the head the first page saw and the point where the last one resumes, a transfer is missing only
\* where a scan did not read its window to the end (its budget was spent, or the node ended the stream before
\* the last ledger, which endLedger excludes), or because its asset could not be named (fetchPage in
\* history.ts): no row is trimmed, and no ledger lost between two windows, whatever ledgers close in between.
MissingOnlyUnread ==
  pages # <<>> =>
    \A l \in Last(pages).window[1]..pages[1].window[2] : \A n \in DOMAIN ledgers[l] :
      LET e == EventsOf(l)[n] IN
      \/ ~parseSACTransfer(e) \/ e \in ToSet(AllRows)
      \/ e.kind = "token" /\ assetCache = "unnamed"
      \/ \E p \in DOMAIN pages : l \in pages[p].unread..pages[p].window[2]

\* The same of the classic rail: every transfer-shaped operation from the
\* newest to the token the cursor resumes at was served (history.ts, Rail 2).
OperationsComplete ==
  classic /\ pages # <<>> =>
    \A t \in DOMAIN operations :
      t >= Last(pages).next.o /\ ClassicRow(t)
        => \E i \in DOMAIN AllRows : AllRows[i].rail = "classic" /\ AllRows[i].n = t

\* What the panel tells of the history is so (history.ts, activity.ts).
ActivityTrue == MissingOnlyUnread /\ OperationsComplete

\* Claims of the code that it does not keep.  "nothing between the two windows is ever skipped"
\* (history.ts:52-53): the newest events of a busy window, and a ledger that endLedger excludes, are.
NothingSkipped ==
  ~classic /\ pages # <<>> /\ assetCache # "unnamed" =>
    \A l \in Last(pages).window[1]..pages[1].window[2] : \A n \in DOMAIN ledgers[l] :
      parseSACTransfer(EventsOf(l)[n]) => EventsOf(l)[n] \in ToSet(AllRows)
\* "windows are disjoint, progress is strictly backwards, and nothing is re-read" (history.ts:184-187): the
\* cursor leads out of the window, into rows of the page before it or newer ones; when the window itself is
\* empty, the next one ends before those, which may be where this one ended.
NoRowTwice == ~classic => \A i, j \in DOMAIN AllRows : AllRows[i] = AllRows[j] => i = j
MarchesBackwards == \A p \in DOMAIN pages : p > 1 => pages[p].window[1] < pages[p - 1].window[1]
\* "one newest-first list" (activity.ts:48): "Load older" may bring rows of ledgers closed since.
ShownNewestFirst ==
  ~classic => \A i, j \in DOMAIN Displayed : i < j => Displayed[i].at >= Displayed[j].at
\* "no rail may be re-scrolled from the top" (history.ts:339): the cursor of a
\* drained rail is left out, which reads as the beginning.
NoRailRescrolled ==
  \A i, j \in DOMAIN AllRows : AllRows[i] = AllRows[j] /\ AllRows[i].rail = "classic" => i = j
\* "Payments you send or receive will appear here" (activity.tsx:63): events are
\* not filtered by account, and a quiet first page offers no way to older ones.
OnlyOwnRows == \A i \in DOMAIN AllRows : AllRows[i].kind # "others"
EmptyMeansNone ==
  PanelShows = "no transactions yet" =>
    \A l \in Oldest(Len(ledgers))..pages[1].window[2] : \A n \in DOMAIN ledgers[l] : ledgers[l][n] # "own"
=============================================================================
