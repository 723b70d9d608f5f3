\* One request at a time, store and cache never failing, both cache backends;
\* imports of up to two entries, ClearDatabase and one restart.
CONSTANTS
    Orders = {o1, o2}
    Customers = {c1, c2}
    Clients = {p1}
    Deadlines = {1, 2}
    MaxTime = 2
    ReturnWindow = 1
    Backends = {"redis", "inmem"}
    InfraMayFail = FALSE
    Admins = {p1}
    Files <- MCFiles
    MaxRestarts = 1
    None = None
    NoOrder = NoOrder
SPECIFICATION Spec
VIEW BusyView
INVARIANT TypeOK CacheCoherent
PROPERTY LifecycleRefined
