--------------------------- MODULE MCOrderListing ---------------------------
EXTENDS OrderListing, TLC

\* Raw limits that lead to different pages: zero (gRPC default, HTTP 400),
\* one row a page (so that pages split), and above the cap.
MCRawLimits == {0, 1, 101}

MCQueries == {"all", "pvz", "returns"}

\* States that differ only in what no later step or property reads are
\* one state: the delivery and return times of a row (with ReturnWindow 0
\* a return is always at the delivery time, so they decide no guard), the
\* deletion time of a row that exists again, and a deletion time that is
\* already more than HistoryTTL in the past.
RowView(id) == IF orders[id] = NoOrder THEN NoOrder
               ELSE [s |-> orders[id].state, c |-> orders[id].customer]

GoneView(id) ==
    CASE orders[id] # NoOrder            -> None
      [] goneAt[id] = None                -> None
      [] clock - goneAt[id] > HistoryTTL  -> "old"
      [] OTHER                            -> goneAt[id]

\* A client's api is read only by StartListing, which overwrites it; its
\* query, limit and cursor are read no more once its traversal ended; and
\* any two limits of at least |Orders| give the same pages (a limit above
\* MaxPageSize stays apart, TypeOK tells it).
LimitView(l) == IF l >= Cardinality(Orders) /\ l <= MaxPageSize THEN "wide" ELSE l

PagingView(c) ==
    IF lpc[c] \in {"idle", "paging"}
    THEN <<query[c], LimitView(limit[c]), cursor[c]>>
    ELSE lpc[c]

ListingView ==
    <<[id \in Orders |-> RowView(id)], clock, clearing, backend,
      lpc, [c \in Clients |-> PagingView(c)], seen, hist, hexp,
      sweepDoomed, histOut, stable, [id \in Orders |-> GoneView(id)]>>
=============================================================================
