\* Two concurrent requests: courier reclaim racing a delivery at the deadline.
CONSTANTS
    Orders = {o1}
    Customers = {c1, c2}
    Clients = {p1, p2}
    Deadlines = {1, 2}
    MaxTime = 3
    ReturnWindow = 1
    Backends = {"redis"}
    InfraMayFail = FALSE
    Admins = {}
    Files = {}
    MaxRestarts = 0
    None = None
    NoOrder = NoOrder
SPECIFICATION Spec
VIEW BusyView
PROPERTY DeletionOnlyWhenAllowed
