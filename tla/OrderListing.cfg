\* Cursor pagination and the history snapshot while the table changes.
\* One reader: readers do not affect one another, the writers are the
\* OrderLifecycle steps, ClearDatabase included.  Two ids so that a page of one splits
\* the table; HistoryTTL 1 with MaxTime 2 lets a snapshot outlive its TTL.
CONSTANTS
    Orders = {1, 2}
    Customers = {u1}
    Deadlines = {1}
    MaxTime = 2
    ReturnWindow = 0
    None = None
    NoOrder = NoOrder
    Clients = {r1}
    Queries <- MCQueries
    RawLimits <- MCRawLimits
    NoLimit = NoLimit
    DefaultPageSize = 5
    MaxPageSize = 100
    HistoryTTL = 1
    Backends = {"redis", "inmem"}
    InfraMayFail = TRUE
    NoSnapshot = NoSnapshot
SPECIFICATION Spec
VIEW ListingView
\* Behaviours end: the clock stops at MaxTime, each reader pages once.
CHECK_DEADLOCK FALSE
INVARIANT TypeOK SeenDescending StableRowsListed
PROPERTY HistoryNeverStale
