\* One request at a time on the in-memory cache backend, nothing failing:
\* an order accepted, handed out and returned, or left to expire, and then
\* reclaimed by the courier.  All states are kept apart (no VIEW), since the
\* property reads the answers.
CONSTANTS
    Orders = {o1}
    Customers = {c1}
    Clients = {p1}
    Deadlines = {1}
    MaxTime = 2
    ReturnWindow = 1
    Backends = {"inmem"}
    InfraMayFail = FALSE
    Admins = {}
    Files = {}
    MaxRestarts = 0
    None = None
    NoOrder = NoOrder
SPECIFICATION Spec
INVARIANT CacheMissNeverPropagates
