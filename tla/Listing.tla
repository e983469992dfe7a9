------------------------------- MODULE Listing -------------------------------
(* The paged lists of the API and of the console.  A list is read page by page,
   each page in a query of its own that starts behind a cursor, while transactions
   begin, commit and change status in between.  A behaviour is one client that
   follows next_page_token through one list to its end.  It sends only tokens that
   it was given: how a malformed one is taken for none, or one with a number that is
   no UUID answered with an empty page, is left out.

   A row stands for its number, the position of its txn_no, change_id, id or
   *_no; created_at is the start of the transaction that inserts it (NOW()), so
   rows become visible in neither order.  Filters on what never changes select
   Rows; the filter on status is part of the model.                             *)
EXTENDS Integers, Sequences, FiniteSets, SequencesExt

CONSTANTS
  Rows,          \* an interval of Nat
  MaxClock,      \* of the microseconds a timestamp counts
  Asked,         \* the page_size parameters: None when absent
  DefaultSize, MaxSize,   \* 20 and 200 in the code
  Lists,         \* the lists this instance covers
  MaxFaults,     \* failed queries
  None

VARIABLES
  list, asked, wanted,   \* the request: which list, its page_size and its status filter
  where,      \* of each row: not begun, in an open transaction, committed
  createdAt, status,
  clock,
  pc,         \* the client: "start", "more" pages to get, "done", "INVALID" or "NOT_FOUND"
  cursor,     \* the page_token it sends next
  got,        \* the items of the pages so far
  owed,       \* rows that were listed when it began and have matched ever since
  cut,        \* a query failed and was answered as a last, empty page
  faults

table == <<where, createdAt, status, clock>>
scan == <<pc, cursor, got, owed, cut, faults>>
request == <<list, asked, wanted>>
vars == <<request, table, scan>>

ApiLists == {"transactions", "changeLogs"}
AdminLists == {"adminTransactions", "outbox", "audit", "merchants", "customers", "accounts"}
ByTime == {"transactions", "adminTransactions", "changeLogs"}
ById == {"outbox", "audit"}
WithStatus == {"transactions", "adminTransactions", "outbox"}

ASSUME ListingAssumption ==
  /\ Rows \subseteq Nat \ {0} /\ IsFiniteSet(Rows) /\ MaxClock \in Nat /\ MaxFaults \in Nat
  /\ DefaultSize \in 1..MaxSize /\ Asked \subseteq (Int \cup {None})
  /\ Lists \subseteq ApiLists \cup AdminLists

-----------------------------------------------------------------------------
\* The cursor: nanoseconds and a number, of timestamps that count microseconds.

EncodePageTokenCoarse(r) == [ns |-> 1000 * (2 * (createdAt[r] \div 2)), no |-> r]
EncodePageTokenLate(r) == [ns |-> 1000 * (createdAt[r] + 1), no |-> r]
EncodePageToken(r) == [ns |-> 1000 * createdAt[r], no |-> r]

DecodePageToken(token) ==
  IF token = None THEN [has |-> FALSE, at |-> 0, no |-> 0]
  ELSE [has |-> TRUE, at |-> token.ns \div 1000, no |-> token.no]

\* The console's cursors are the last id or number itself; 0 and "" stand for none.
CursorOf(token) == IF token = None THEN 0 ELSE token

-----------------------------------------------------------------------------
\* The queries.

Matches(r) == where[r] = "committed" /\ wanted \in {None, status[r]}

\* ORDER BY ... LIMIT: the first n of a set of rows.
NewestFirst(r, s) == createdAt[r] > createdAt[s] \/ (createdAt[r] = createdAt[s] /\ r > s)
Newest(S, n) == LET q == SetToSortSeq(S, NewestFirst) IN SubSeq(q, 1, IF Len(q) < n THEN Len(q) ELSE n)
Highest(S, n) == LET q == SetToSortSeq(S, >) IN SubSeq(q, 1, IF Len(q) < n THEN Len(q) ELSE n)
Lowest(S, n) == LET q == SetToSortSeq(S, <) IN SubSeq(q, 1, IF Len(q) < n THEN Len(q) ELSE n)

BehindTimeOnly(r, c) == ~c.has \/ createdAt[r] < c.at
Behind(r, c) == ~c.has \/ createdAt[r] < c.at \/ (createdAt[r] = c.at /\ r < c.no)

QueryTransferTxns(c, n) == Newest({r \in Rows : Matches(r) /\ Behind(r, c)}, n)
QueryAccountChangeLogs(c, n) == Newest({r \in Rows : Matches(r) /\ Behind(r, c)}, n)

\* A page, and the token of the next when the query found a row too many.
Page(rows, size, tokens) ==
  IF Len(rows) <= size THEN [items |-> rows, next |-> None]
  ELSE [items |-> SubSeq(rows, 1, size), next |-> tokens[rows[size]]]

TimeTokens == [r \in Rows |-> EncodePageToken(r)]
NumberTokens == [r \in Rows |-> r]

ListTransferTxns(token, size) ==
  Page(QueryTransferTxns(DecodePageToken(token), size + 1), size, TimeTokens)

ListAccountChangeLogs(token, size) ==
  Page(QueryAccountChangeLogs(DecodePageToken(token), size + 1), size, TimeTokens)

ListOutboxEventsForAdmin(token, size) ==
  LET c == CursorOf(token)
  IN Page(Highest({r \in Rows : Matches(r) /\ (c = 0 \/ r < c)}, size + 1), size, NumberTokens)

ListAdminAuditLogs(token, size) ==
  LET c == CursorOf(token)
  IN Page(Highest({r \in Rows : Matches(r) /\ (c = 0 \/ r < c)}, size + 1), size, NumberTokens)

ListMerchantsForAdmin(token, size) ==
  LET c == CursorOf(token)
  IN Page(Lowest({r \in Rows : Matches(r) /\ (c = 0 \/ r > c)}, size + 1), size, NumberTokens)

ListCustomersForAdmin(token, size) ==
  LET c == CursorOf(token)
  IN Page(Lowest({r \in Rows : Matches(r) /\ (c = 0 \/ r > c)}, size + 1), size, NumberTokens)

ListAccountsForAdmin(token, size) ==
  LET c == CursorOf(token)
  IN Page(Lowest({r \in Rows : Matches(r) /\ (c = 0 \/ r > c)}, size + 1), size, NumberTokens)

\* TxnQueryService.List without a repository: it sorts all that matches, drops
\* what the cursor has passed and cuts a page off.
ListInMemory(token, size) ==
  LET c == DecodePageToken(token)
      filtered == SetToSortSeq({r \in Rows : Matches(r)}, NewestFirst)
      rest == SelectSeq(filtered, LAMBDA r :
                ~c.has \/ createdAt[r] < c.at \/ (createdAt[r] = c.at /\ r < c.no))
  IN Page(rest, size, TimeTokens)

-----------------------------------------------------------------------------
\* The handlers.

parsePageSize(raw) ==
  IF raw = None THEN DefaultSize
  ELSE IF raw <= 0 THEN -1
  ELSE IF raw > MaxSize THEN MaxSize ELSE raw

Size == parsePageSize(asked)

Ready(l) == list = l /\ pc \in {"start", "more"}

Refused(l) ==
  /\ Ready(l) /\ Size <= 0
  /\ pc' = "INVALID" /\ UNCHANGED <<request, table, cursor, got, owed, cut, faults>>

\* The client appends the page and follows its token.
Deliver(page) ==
  /\ Size > 0
  /\ got' = got \o page.items
  /\ cursor' = page.next
  /\ pc' = IF page.next = None THEN "done" ELSE "more"
  /\ owed' = IF pc = "start" THEN {r \in Rows : Matches(r)} ELSE owed
  /\ UNCHANGED <<request, table>>

Served(page) == Deliver(page) /\ UNCHANGED <<cut, faults>>

Failing == faults < MaxFaults /\ faults' = faults + 1

\* ListTransferTxns and ListAccountChangeLogs answer a failed query with no items
\* and no token.
SwallowedError ==
  Failing /\ cut' = TRUE /\ Deliver([items |-> <<>>, next |-> None])

\* The console answers it with an error; the client sends the same token again.
ReportedError ==
  Failing /\ Size > 0 /\ UNCHANGED <<request, table, pc, cursor, got, owed, cut>>

handleListTransactions ==
  /\ Ready("transactions")
  /\ Served(ListTransferTxns(cursor, Size)) \/ SwallowedError

\* GetAccount finds nothing: there is no such account of the merchant, which then holds
\* for the first page as for any other, or its query fails.
AccountNotFound ==
  /\ pc' = "NOT_FOUND"
  /\ Failing \/ (pc = "start" /\ UNCHANGED faults)
  /\ UNCHANGED <<request, table, cursor, got, owed, cut>>

handleListAccountChangeLogs ==
  /\ Ready("changeLogs")
  /\ AccountNotFound \/ Served(ListAccountChangeLogs(cursor, Size)) \/ SwallowedError

handleAdminListTransactions ==
  /\ Ready("adminTransactions")
  /\ Served(ListTransferTxns(cursor, Size)) \/ SwallowedError

handleAdminListOutboxEvents ==
  /\ Ready("outbox")
  /\ Served(ListOutboxEventsForAdmin(cursor, Size)) \/ ReportedError

handleAdminListAuditLogs ==
  /\ Ready("audit")
  /\ Served(ListAdminAuditLogs(cursor, Size)) \/ ReportedError

handleAdminListMerchants ==
  /\ Ready("merchants")
  /\ Served(ListMerchantsForAdmin(cursor, Size)) \/ ReportedError

handleAdminListCustomers ==
  /\ Ready("customers")
  /\ Served(ListCustomersForAdmin(cursor, Size)) \/ ReportedError

handleAdminListAccounts ==
  /\ Ready("accounts")
  /\ Served(ListAccountsForAdmin(cursor, Size)) \/ ReportedError

-----------------------------------------------------------------------------
\* The tables meanwhile.

Begin(r) ==
  /\ where[r] = "none"
  /\ where' = [where EXCEPT ![r] = "open"]
  /\ createdAt' = [createdAt EXCEPT ![r] = clock]
  /\ UNCHANGED <<request, status, clock, scan>>

Commit(r) ==
  /\ where[r] = "open"
  /\ where' = [where EXCEPT ![r] = "committed"]
  /\ UNCHANGED <<request, createdAt, status, clock, scan>>

\* What comes after a status: a transaction ends; an outbox event is claimed, and ends or
\* waits for its next attempt.
Following(s) ==
  CASE s = "PENDING" -> IF list = "outbox" THEN {"PROCESSING"} ELSE {"FINAL"}
    [] s = "PROCESSING" -> {"PENDING", "FINAL"}
    [] OTHER -> {}

Advance(r) ==
  /\ list \in WithStatus /\ where[r] = "committed"
  /\ \E s \in Following(status[r]) :
       /\ status' = [status EXCEPT ![r] = s]
       /\ owed' = IF wanted \in {None, s} THEN owed ELSE owed \ {r}
  /\ UNCHANGED <<request, where, createdAt, clock, pc, cursor, got, cut, faults>>

Tick == clock < MaxClock /\ clock' = clock + 1 /\ UNCHANGED <<request, where, createdAt, status, scan>>

Init ==
  /\ list \in Lists /\ asked \in Asked
  /\ wanted \in IF list \in WithStatus THEN {None, "PENDING", "FINAL"} ELSE {None}
  /\ where = [r \in Rows |-> "none"] /\ createdAt = [r \in Rows |-> 0]
  /\ status = [r \in Rows |-> "PENDING"] /\ clock = 0
  /\ pc = "start" /\ cursor = None /\ got = <<>> /\ owed = {} /\ cut = FALSE /\ faults = 0

Next ==
  \/ handleListTransactions \/ handleListAccountChangeLogs \/ handleAdminListTransactions
  \/ handleAdminListOutboxEvents \/ handleAdminListAuditLogs
  \/ handleAdminListMerchants \/ handleAdminListCustomers \/ handleAdminListAccounts
  \/ \E l \in Lists : Refused(l)
  \/ \E r \in Rows : Begin(r) \/ Commit(r) \/ Advance(r)
  \/ Tick

Spec == Init /\ [][Next]_vars

-----------------------------------------------------------------------------
\* One row of a list before another.
InOrder(r, s) ==
  IF list \in ByTime THEN NewestFirst(r, s) ELSE IF list \in ById THEN r > s ELSE r < s

\* The pages of a list, put one behind the other, are sorted: whatever is inserted
\* or changed between two queries, no row comes twice or out of order.
PagesInOrder == \A i, j \in DOMAIN got : i < j => InOrder(got[i], got[j])

\* A client that follows the tokens to the end, with no query cut short, has seen
\* every row that was in the list when it began and stayed in it.
ScanIsComplete == pc = "done" /\ ~cut => owed \subseteq Range(got)

\* TxnQueryService.List gives the same page and token from memory as from the
\* database, wherever the client stands.
MemoryAsDatabase ==
  list = "transactions" /\ Size > 0 =>
    ListInMemory(cursor, Size) = ListTransferTxns(cursor, Size)
=============================================================================
