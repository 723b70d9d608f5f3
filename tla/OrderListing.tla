---------------------------- MODULE OrderListing ----------------------------
(***************************************************************************)
(* The read side of the orders table: the list endpoints with cursor      *)
(* pagination by id (handler ListOrders/ListReturns, gRPC ListOrders/     *)
(* ListReturns, OrderService.List*WithCursor, repository ListWithCursor / *)
(* ListReturnsWithCursor), and OrderHistory, served from the history      *)
(* snapshot of the cache when it is live and from repository.List         *)
(* otherwise, with the goroutine that refreshes the snapshot and the      *)
(* in-memory sweep that drops it once expired.                            *)
(*                                                                         *)
(* Meanwhile the table changes as OrderLifecycle allows (OrderService is  *)
(* shown to implement it).  Each SELECT is one statement, so one step.    *)
(***************************************************************************)
EXTENDS Naturals, Sequences, SequencesExt

CONSTANTS
    Orders, Customers, Deadlines, MaxTime, ReturnWindow, None, NoOrder,
    Clients,          \* callers of the read endpoints
    Queries,          \* "all", "pvz", "returns", or a customer id
    RawLimits,        \* the limit a caller sends (NoLimit: none)
    NoLimit,
    DefaultPageSize,  \* defaultPageSize (5)
    MaxPageSize,      \* the 100 of parseLimitFromString / maxPageSize
    HistoryTTL,       \* inmemHistoryTTL / historyTTL, in clock ticks
    Backends,         \* cache backends the config may select
    InfraMayFail,     \* a query or a cache call may fail
    NoSnapshot        \* no history entry in the cache

ASSUME /\ Orders \subseteq Nat \ {0}
       /\ Queries \subseteq {"all", "pvz", "returns"} \cup Customers
       /\ Backends \subseteq {"redis", "inmem"}
       /\ HistoryTTL \in Nat

VARIABLES
    orders, clock,  \* the orders table and the wall clock (OrderLifecycle)
    clearing,       \* whether a ClearDatabase is deleting rows (OrderLifecycle)
    backend,        \* the cache chosen by SetCashType
    lpc,            \* per client: "idle", "paging", "done", "failed", "rejected"
    api,            \* per client: "http" or "grpc"
    query,          \* per client: the list and its filter
    limit,          \* per client: the page size after parsing
    cursor,         \* per client: the cursor of the next request (0: none)
    seen,           \* per client: ids of the pages received, in order
    hist,           \* the history snapshot: a set of ids, or NoSnapshot
    hexp,           \* its expiry time
    sweepDoomed,    \* the sweep found the snapshot expired and will nil it
    histOut,        \* per client: ids of the last OrderHistory answer
    (* Observability only. *)
    stable,         \* per client: ids listed by its query throughout paging
    goneAt          \* goneAt[id]: when the row was last deleted (None: never)

tableVars == <<orders, clock, clearing>>
listVars == <<lpc, api, query, limit, cursor, seen>>
histVars == <<hist, hexp, sweepDoomed, histOut>>
vars == <<tableVars, backend, listVars, histVars, stable, goneAt>>

Life == INSTANCE OrderLifecycle

TypeOK ==
    /\ Life!TypeOK
    /\ backend \in Backends
    /\ lpc \in [Clients -> {"idle", "paging", "done", "failed", "rejected"}]
    /\ api \in [Clients -> {"http", "grpc"}]
    /\ query \in [Clients -> Queries]
    /\ limit \in [Clients -> 1..MaxPageSize]
    /\ cursor \in [Clients -> {0} \cup Orders]
    /\ seen \in [Clients -> Seq(Orders)]
    /\ hist \in SUBSET Orders \cup {NoSnapshot}
    /\ hexp \in 0..(MaxTime + HistoryTTL)
    /\ sweepDoomed \in BOOLEAN
    /\ histOut \in [Clients -> SUBSET Orders]
    /\ stable \in [Clients -> SUBSET Orders]
    /\ goneAt \in [Orders -> 0..MaxTime \cup {None}]

\* The WHERE clause of ListWithCursor / ListReturnsWithCursor, on table o
\* at time t: state and filters, without the cursor.
Listed(o, t, q, id) ==
    /\ o[id] # NoOrder
    /\ CASE q = "returns" -> o[id].state = "returned"
         [] q = "pvz"     -> o[id].state = "accepted" /\ o[id].deadline > t
         [] q = "all"     -> TRUE
         [] OTHER         -> o[id].customer = q

\* Rows the query may return after the cursor: "AND o.id < $n" only when
\* cursorID > 0.
BelowInclusive(q, cur) ==
    {id \in Orders : Listed(orders, clock, q, id) /\ (cur > 0 => id <= cur)}

Below(q, cur) ==
    {id \in Orders : Listed(orders, clock, q, id) /\ (cur > 0 => id < cur)}

\* ORDER BY o.id DESC LIMIT n.
ListWithCursor(q, cur, n) ==
    LET rows == SetToSortSeq(Below(q, cur), >)
    IN  SubSeq(rows, 1, IF n < Len(rows) THEN n ELSE Len(rows))

\* parseLimitFromString (HTTP: absent -> default, outside 1..100 -> 400)
\* and the gRPC clamp (<= 0 -> default, > maxPageSize -> maxPageSize).
LimitAccepted(a, raw) == a = "grpc" \/ raw = NoLimit \/ raw \in 1..MaxPageSize

PageLimitUnclamped(a, raw) ==
    CASE raw = NoLimit                  -> DefaultPageSize
      [] a = "grpc" /\ raw <= 0         -> DefaultPageSize
      [] OTHER                          -> raw

PageLimit(a, raw) ==
    CASE raw = NoLimit                  -> DefaultPageSize
      [] a = "grpc" /\ raw <= 0         -> DefaultPageSize
      [] a = "grpc" /\ raw > MaxPageSize -> MaxPageSize
      [] OTHER                          -> raw

\* The handler's answer to limit+1 rows: has_more when there are more than
\* limit, the page trimmed to limit, and next_cursor the id of the last
\* order of the page (none when the page is empty).
LastId(page) == IF page = <<>> THEN 0 ELSE page[Len(page)]

RespondCursorFromExtra(rows, n) ==
    LET page == IF Len(rows) > n THEN SubSeq(rows, 1, n) ELSE rows
    IN  [page |-> page, hasMore |-> Len(rows) > n, next |-> LastId(rows)]

Respond(rows, n) ==
    LET page == IF Len(rows) > n THEN SubSeq(rows, 1, n) ELSE rows
    IN  [page |-> page, hasMore |-> Len(rows) > n, next |-> LastId(page)]
-----------------------------------------------------------------------------
Init ==
    /\ Life!Init
    /\ backend \in Backends
    /\ lpc = [c \in Clients |-> "idle"]
    /\ api = [c \in Clients |-> "http"]
    /\ query = [c \in Clients |-> "all"]
    /\ limit = [c \in Clients |-> DefaultPageSize]
    /\ cursor = [c \in Clients |-> 0]
    /\ seen = [c \in Clients |-> <<>>]
    \* StartHistoryCacheRefresh refreshes once at start-up; the table is
    \* empty then, and the refresh may fail.
    /\ \/ hist = {} /\ hexp = HistoryTTL
       \/ InfraMayFail /\ hist = NoSnapshot /\ hexp = 0
    /\ sweepDoomed = FALSE
    /\ histOut = [c \in Clients |-> {}]
    /\ stable = [c \in Clients |-> {}]
    /\ goneAt = [id \in Orders |-> None]

\* What the properties observe: the rows a traversal's query matched at
\* every step from its first request on, and when each row was deleted.
Observe ==
    /\ stable' = [c \in Clients |->
          CASE lpc[c] = "idle" /\ lpc'[c] = "paging" ->
                  {id \in Orders : Listed(orders', clock', query'[c], id)}
            [] lpc[c] = "paging" ->
                  {id \in stable[c] : Listed(orders', clock', query[c], id)}
            [] OTHER -> stable[c]]
    /\ goneAt' = [id \in Orders |->
          IF orders[id] # NoOrder /\ orders'[id] = NoOrder THEN clock
                                                           ELSE goneAt[id]]

\* Writers: any step OrderLifecycle allows.
TableStep ==
    /\ Life!Next
    /\ UNCHANGED <<backend, listVars, histVars>>
    /\ Observe

\* The first request of a traversal: parse the query and the limit (a bad
\* limit is a 400), no cursor.
StartListing(c) ==
    /\ lpc[c] = "idle"
    /\ \E a \in {"http", "grpc"}, q \in Queries, raw \in RawLimits :
          /\ api' = [api EXCEPT ![c] = a]
          /\ query' = [query EXCEPT ![c] = q]
          /\ IF LimitAccepted(a, raw)
                THEN /\ lpc' = [lpc EXCEPT ![c] = "paging"]
                     /\ limit' = [limit EXCEPT ![c] = PageLimit(a, raw)]
                ELSE /\ lpc' = [lpc EXCEPT ![c] = "rejected"]
                     /\ UNCHANGED limit
    /\ UNCHANGED <<tableVars, backend, cursor, seen, histVars>>
    /\ Observe

\* One page: the service asks the repository for limit+1 rows below the
\* cursor, keeps limit of them and reports has_more and next_cursor; the
\* client sends next_cursor back while has_more.  A failed query is a 500
\* (HTTP) or a gRPC error and ends the traversal.
Page(c) ==
    /\ lpc[c] = "paging"
    /\ \/ /\ InfraMayFail
          /\ lpc' = [lpc EXCEPT ![c] = "failed"]
          /\ UNCHANGED <<cursor, seen>>
       \/ LET r == Respond(ListWithCursor(query[c], cursor[c], limit[c] + 1),
                           limit[c])
          IN  /\ seen' = [seen EXCEPT ![c] = @ \o r.page]
              /\ IF r.hasMore
                    THEN /\ cursor' = [cursor EXCEPT ![c] = r.next]
                         /\ UNCHANGED lpc
                    ELSE /\ lpc' = [lpc EXCEPT ![c] = "done"]
                         /\ UNCHANGED cursor
    /\ UNCHANGED <<tableVars, backend, api, query, limit, histVars>>
    /\ Observe

\* Fault variant: a snapshot still served one tick past its TTL.
HistoryLiveLate(b) == hist # NoSnapshot /\ clock <= hexp + 1

\* InMemoryCache.GetOrderHistory: history != nil and !now.After(ttl).
InMemHistoryLive == hist # NoSnapshot /\ clock <= hexp

\* RedisCache.GetOrderHistory: GET finds the key, which Redis drops once
\* its TTL has run out.
RedisHistoryLive == hist # NoSnapshot /\ clock < hexp

\* GetOrderHistory of the backend SetCashType chose finds a live snapshot.
HistoryLive(b) == IF b = "inmem" THEN InMemHistoryLive ELSE RedisHistoryLive

\* OrderHistory: with no search term, the snapshot if the cache has a live
\* one; with a search term, after a cache miss, or after a cache error,
\* repository.List on the current table; a failed List is an error (no
\* orders).
OrderHistory(c) ==
    /\ \/ HistoryLive(backend) /\ histOut' = [histOut EXCEPT ![c] = hist]
       \/ histOut' = [histOut EXCEPT ![c] = {id \in Orders : orders[id] # NoOrder}]
       \/ InfraMayFail /\ histOut' = [histOut EXCEPT ![c] = {}]
    /\ UNCHANGED <<tableVars, backend, listVars, hist, hexp, sweepDoomed>>
    /\ Observe

\* A tick of the refresh goroutine: refreshHistoryCache takes the TryLock
\* (only this goroutine refreshes after the start-up refresh returned),
\* reads repository.List("") and stores it with ttl = now + TTL.  On a
\* failed List or Set the previous snapshot remains.
RefreshHistory ==
    /\ \/ /\ hist' = {id \in Orders : orders[id] # NoOrder}
          /\ hexp' = clock + HistoryTTL
       \/ InfraMayFail /\ UNCHANGED <<hist, hexp>>
    /\ UNCHANGED <<tableVars, backend, listVars, sweepDoomed, histOut>>
    /\ Observe

\* cleanupExpiredOrders, history part: under RLock it finds the snapshot
\* expired; later, under Lock, it sets history = nil without looking again.
SweepCheck ==
    /\ backend = "inmem" /\ ~sweepDoomed
    /\ hist # NoSnapshot /\ clock > hexp
    /\ sweepDoomed' = TRUE
    /\ UNCHANGED <<tableVars, backend, listVars, hist, hexp, histOut>>
    /\ Observe

SweepClear ==
    /\ sweepDoomed
    /\ hist' = NoSnapshot /\ sweepDoomed' = FALSE
    /\ UNCHANGED <<tableVars, backend, listVars, hexp, histOut>>
    /\ Observe

Next ==
    \/ TableStep
    \/ \E c \in Clients : StartListing(c) \/ Page(c) \/ OrderHistory(c)
    \/ RefreshHistory \/ SweepCheck \/ SweepClear

Spec == Init /\ [][Next]_vars
-----------------------------------------------------------------------------
(* Properties.                                                             *)

\* A traversal never lists an order twice and never goes back: the ids of
\* its pages, in the order received, strictly decrease, however the table
\* changes between requests (the strict "o.id < cursor" and next_cursor
\* taken from the trimmed page).
SeenDescending ==
    \A c \in Clients :
        \A i \in 1..(Len(seen[c]) - 1) : seen[c][i] > seen[c][i + 1]

\* A traversal that ends (has_more false) has listed every order that its
\* query matched from the first request to the last, although other
\* requests accepted, handed out, returned and reclaimed orders meanwhile.
StableRowsListed ==
    \A c \in Clients : lpc[c] = "done" => stable[c] \subseteq Range(seen[c])

\* OrderHistory never answers with an order that was deleted more than the
\* history TTL ago: the snapshot it serves is at most HistoryTTL old,
\* whichever backend serves it and however refresh and sweep interleave.
HistoryNeverStale ==
    [][\A c \in Clients :
          \A id \in histOut'[c] \ {i \in Orders : orders'[i] # NoOrder} :
              histOut'[c] # histOut[c] => clock' - goneAt'[id] <= HistoryTTL]_vars
=============================================================================
