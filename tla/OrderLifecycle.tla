--------------------------- MODULE OrderLifecycle ---------------------------
(***************************************************************************)
(* What the order service promises about the orders table (spec.md, 3 and *)
(* 4.3), with no cache, no requests in flight and no audit: every order   *)
(* moves along ACCEPTED -> {DELIVERED, deleted}, DELIVERED -> RETURNED,   *)
(* RETURNED -> deleted; delivery happens at a time not after the storage  *)
(* deadline, a return within ReturnWindow of the delivery, and a courier  *)
(* reclaims only a RETURNED order or an ACCEPTED one whose deadline has   *)
(* been reached.  The test/admin ClearDatabase may, while it runs, remove *)
(* orders in any state (spec.md 4.3).  OrderService is shown to implement *)
(* this module.                                                            *)
(***************************************************************************)
EXTENDS Naturals

CONSTANTS
    Orders,        \* order ids
    Customers,     \* customer ids
    Deadlines,     \* storage deadlines an order may be accepted with
    MaxTime,       \* last clock value explored
    ReturnWindow,  \* the 48h return window, in clock ticks
    None,          \* an unset timestamp (delivered_at / returned_at NULL)
    NoOrder        \* no row with this id

ASSUME /\ Deadlines \subseteq 0..MaxTime
       /\ ReturnWindow \in Nat

VARIABLES
    orders,   \* orders[id]: the row with this id, or NoOrder
    clock,    \* wall-clock time, in ticks
    clearing  \* whether a ClearDatabase is removing orders

Time == 0..MaxTime

Order == [state: {"accepted", "delivered", "returned"}, customer: Customers,
          deadline: Deadlines, deliveredAt: Time \cup {None},
          returnedAt: Time \cup {None}]

TypeOK ==
    /\ orders \in [Orders -> Order \cup {NoOrder}]
    /\ clock \in Time
    /\ clearing \in BOOLEAN

Init ==
    /\ orders = [id \in Orders |-> NoOrder]
    /\ clock = 0
    /\ clearing = FALSE

Accept(id) ==
    /\ orders[id] = NoOrder
    /\ \E c \in Customers, d \in Deadlines :
          orders' = [orders EXCEPT ![id] = [state |-> "accepted", customer |-> c,
                        deadline |-> d, deliveredAt |-> None, returnedAt |-> None]]
    /\ UNCHANGED <<clock, clearing>>

\* The hand-out time t is a clock reading taken no later than now.
Deliver(id) ==
    /\ orders[id] # NoOrder
    /\ orders[id].state = "accepted"
    /\ \E t \in 0..clock :
          /\ t <= orders[id].deadline
          /\ orders' = [orders EXCEPT ![id].state = "delivered",
                                      ![id].deliveredAt = t]
    /\ UNCHANGED <<clock, clearing>>

Return(id) ==
    /\ orders[id] # NoOrder
    /\ orders[id].state = "delivered"
    /\ \E t \in orders[id].deliveredAt..clock :
          /\ t - orders[id].deliveredAt <= ReturnWindow
          /\ orders' = [orders EXCEPT ![id].state = "returned",
                                      ![id].returnedAt = t]
    /\ UNCHANGED <<clock, clearing>>

Reclaim(id) ==
    /\ orders[id] # NoOrder
    /\ \/ orders[id].state = "returned"
       \/ orders[id].state = "accepted" /\ orders[id].deadline <= clock
    /\ orders' = [orders EXCEPT ![id] = NoOrder]
    /\ UNCHANGED <<clock, clearing>>

StartClear ==
    /\ ~clearing
    /\ clearing' = TRUE
    /\ UNCHANGED <<orders, clock>>

\* While a clear runs, an order in any state may disappear.
Purge(id) ==
    /\ clearing
    /\ orders[id] # NoOrder
    /\ orders' = [orders EXCEPT ![id] = NoOrder]
    /\ UNCHANGED <<clock, clearing>>

EndClear ==
    /\ clearing
    /\ clearing' = FALSE
    /\ UNCHANGED <<orders, clock>>

Tick ==
    /\ clock < MaxTime
    /\ clock' = clock + 1
    /\ UNCHANGED <<orders, clearing>>

Next ==
    \/ \E id \in Orders :
          \/ Accept(id) \/ Deliver(id) \/ Return(id) \/ Reclaim(id) \/ Purge(id)
    \/ StartClear \/ EndClear
    \/ Tick

Spec == Init /\ [][Next]_<<orders, clock, clearing>>

=============================================================================
