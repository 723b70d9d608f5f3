---------------------------- MODULE OrderService ----------------------------
(***************************************************************************)
(* The order service (service/order.go, part_005) over the orders table   *)
(* (repository/order.go) and the look-aside order cache (cache/*,         *)
(* part_009 redis, part_010 in-memory).                                   *)
(*                                                                         *)
(* Each client is one request goroutine.  A service call is split at its  *)
(* I/O calls: the read through the cache, the repository write (one       *)
(* transaction), the cache write and the audit emission are separate      *)
(* steps, because another request or the clock may act between them.     *)
(* The checks the code makes on what it read are part of the read step.  *)
(* Weight, cost and packaging are abstracted to a valid/invalid input;    *)
(* updated_at is left out (it only orders the history view).              *)
(***************************************************************************)
EXTENDS Naturals, FiniteSets, Sequences

CONSTANTS
    Orders, Customers, Deadlines, MaxTime, ReturnWindow, None, NoOrder,
    Clients,       \* concurrent request goroutines (HTTP / gRPC handlers)
    Backends,      \* cache backends to explore: subset of {"redis", "inmem"}
    Admins,        \* clients that may call ClearDatabase (test/admin endpoint)
    Files,         \* import files AcceptOrdersFromFile may be given
    MaxRestarts,   \* bound on process restarts that find the process up
    InfraMayFail   \* whether a store or cache call may fail (network, ctx cancelled)

ASSUME /\ Deadlines \subseteq 0..MaxTime
       /\ Backends \subseteq {"redis", "inmem"} /\ Backends # {}
       /\ InfraMayFail \in BOOLEAN
       /\ Admins \subseteq Clients
       /\ MaxRestarts \in Nat
       /\ Files \subseteq
             Seq([id: Orders, customer: Customers, deadline: Deadlines])

VARIABLES
    db,        \* db[id]: the orders row, or NoOrder
    cache,     \* cache[id]: the cached order, or NoOrder
    clock,     \* time.Now(), in ticks
    backend,   \* the cache backend chosen by config (utils.SetCashType)
    pc,        \* pc[p]: where request p is in its service call
    now,       \* now[p]: the time.Now() the batch handler of p read (ProcessCustomer)
    req,       \* req[p]: the call's arguments
    local,     \* local[p]: the order value the call holds in memory
    result,    \* result[p]: what the last call of p returned
    audited,   \* audited[id]: new status of the last ORDER_STATUS event for id
    todo,      \* todo[p]: ids ClearDatabase of p has still to delete (or, on
               \* redis, the keys its KEYS call returned)
    batch,     \* batch[p]: the entries of p's import file not yet reached
    up,        \* whether the process is serving (startup got past SetCashType)
    restarts   \* restarts of a serving process so far

vars == <<db, cache, clock, backend, pc, now, req, local, result, audited,
          todo, batch, up, restarts>>

Time == 0..MaxTime
States == {"accepted", "delivered", "returned"}
Order == [state: States, customer: Customers, deadline: Deadlines,
          deliveredAt: Time \cup {None}, returnedAt: Time \cup {None}]
Results == {"none", "ok", "InvalidArgument", "DeadlinePassed", "OrderExists",
            "OrderAlreadyExists", "UniqueViolation",
            "NotFound", "WrongCustomer", "WrongState", "StorageExpired",
            "NotDelivered", "ReturnExpired", "AlreadyDelivered",
            "DeadlineNotExpired", "NotCached", "NotFoundInCache", "Infra"}
PCs == {"idle", "acc_create", "acc_insert", "acc_cache", "acc_log", "dlv_update", "dlv_cache",
        "dlv_log", "ret_update", "ret_cache", "ret_log", "rtc_cache",
        "rtc_delete", "rtc_log", "get_fill", "imp_log",
        "clr_delete", "clr_cache", "clr_del"}
Request == [op: {"none", "accept", "deliver", "return", "courier", "get", "clear",
                 "import"},
            id: Orders \cup {None}, customer: Customers \cup {None},
            deadline: Deadlines \cup {None}]

\* One order of an import file: its id, customer and parsed deadline.
Entry == [id: Orders, customer: Customers, deadline: Deadlines]

\* The outcomes of a store or cache call: it may fail only when InfraMayFail.
Fails == IF InfraMayFail THEN BOOLEAN ELSE {FALSE}

TypeOK ==
    /\ db \in [Orders -> Order \cup {NoOrder}]
    /\ cache \in [Orders -> Order \cup {NoOrder}]
    /\ clock \in Time
    /\ backend \in Backends
    /\ pc \in [Clients -> PCs]
    /\ now \in [Clients -> Time]
    /\ req \in [Clients -> Request]
    /\ local \in [Clients -> Order \cup {NoOrder}]
    /\ result \in [Clients -> Results]
    /\ audited \in [Orders -> States \cup {"none", "deleted"}]
    /\ todo \in [Clients -> SUBSET Orders]
    /\ batch \in [Clients -> Seq(Entry)]
    /\ up \in BOOLEAN
    /\ restarts \in 0..MaxRestarts

Init ==
    /\ db = [id \in Orders |-> NoOrder]
    /\ cache = [id \in Orders |-> NoOrder]
    /\ clock = 0
    /\ backend \in Backends
    /\ pc = [p \in Clients |-> "idle"]
    /\ now = [p \in Clients |-> 0]
    /\ req = [p \in Clients |-> [op |-> "none", id |-> None, customer |-> None,
                                 deadline |-> None]]
    /\ local = [p \in Clients |-> NoOrder]
    /\ result = [p \in Clients |-> "none"]
    /\ audited = [id \in Orders |-> "none"]
    /\ todo = [p \in Clients |-> {}]
    /\ batch = [p \in Clients |-> <<>>]
    /\ up = TRUE
    /\ restarts = 0

-----------------------------------------------------------------------------
(* Helpers for the steps of a call.                                        *)

Goto(p, l) == pc' = [pc EXCEPT ![p] = l]

\* The call returns r to its caller.
Finish(p, r) ==
    /\ pc' = [pc EXCEPT ![p] = "idle"]
    /\ result' = [result EXCEPT ![p] = r]

\* cache.GetOrder finds an entry whose deadline has not passed.
Fresh(id) == cache[id] # NoOrder /\ clock <= cache[id].deadline

\* repo.GetByID: the row, or ErrOrderNotFound (pgx.ErrNoRows); c is the
\* cache as the read through the cache left it.
GetByID(id, c) ==
    [err |-> IF db[id] = NoOrder THEN "NotFound" ELSE "none",
     val |-> db[id], hit |-> FALSE, cache |-> c]

\* Read of an order through the cache (s.cache.GetOrder, falling back to
\* s.repo.GetByID on any cache error).  GetOrder deletes an entry whose
\* deadline has passed.  The outcomes are records: err is "none",
\* "NotFound" or "Infra"; hit tells whether the value came from the cache.
LookAside(id) ==
    LET expired == IF cache[id] # NoOrder /\ ~Fresh(id)
                   THEN [cache EXCEPT ![id] = NoOrder] ELSE cache
    IN  { IF Fresh(id) THEN [err |-> "none", val |-> cache[id], hit |-> TRUE,
                             cache |-> cache]
                       ELSE GetByID(id, expired) }
        \cup (IF InfraMayFail
              THEN {GetByID(id, cache), [err |-> "Infra", val |-> NoOrder,
                                         hit |-> FALSE, cache |-> cache]}
              ELSE {})

\* Both backends' SetOrder refuse an order once now.After(DeadlineAt)
\* (ErrOrderNotCached); Redis then sets the key with a TTL to the deadline.
Cacheable(o) == clock <= o.deadline

\* cache.SetOrder(o) as a step of p that continues at l on success.
SetOrder(p, o, l) ==
    LET id == req[p].id IN
    \E fail \in Fails :
       \/ /\ fail
          /\ Finish(p, "Infra") /\ UNCHANGED cache
       \/ /\ ~fail /\ ~Cacheable(o)
          /\ Finish(p, "NotCached") /\ UNCHANGED cache
       \/ /\ ~fail /\ Cacheable(o)
          /\ cache' = [cache EXCEPT ![id] = o]
          /\ Goto(p, l) /\ UNCHANGED result

\* The in-memory DeleteOrder reports a missing key as
\* ErrOrderNotFoundInCache; the Redis DEL of a missing key succeeds.
ReportsMissing(b) == b = "inmem"

\* cache.DeleteOrder(id) as a step of p that continues at l on success.
DeleteOrder(p, l) ==
    LET id == req[p].id IN
    \E fail \in Fails :
       \/ /\ fail
          /\ Finish(p, "Infra") /\ UNCHANGED cache
       \/ /\ ~fail /\ ReportsMissing(backend) /\ cache[id] = NoOrder
          /\ Finish(p, "NotFoundInCache") /\ UNCHANGED cache
       \/ /\ ~fail /\ (~ReportsMissing(backend) \/ cache[id] # NoOrder)
          /\ cache' = [cache EXCEPT ![id] = NoOrder]
          /\ Goto(p, l) /\ UNCHANGED result

\* s.logger.LogOrderStatusChange followed by a successful return.
LogStatus(p, new) ==
    /\ audited' = [audited EXCEPT ![req[p].id] = new]
    /\ Finish(p, "ok")

RepoUpdate(p, l) ==
    LET id == req[p].id IN
    \E fail \in Fails :
       \/ /\ fail
          /\ Finish(p, "Infra") /\ UNCHANGED db
       \/ /\ ~fail /\ db[id] = NoOrder
          /\ Finish(p, "NotFound") /\ UNCHANGED db
       \/ /\ ~fail /\ db[id] # NoOrder
          /\ db' = [db EXCEPT ![id] = local[p]]
          /\ Goto(p, l) /\ UNCHANGED result

\* GetOrderByID up to its cache fill, as a step of p: an answer from the
\* cache, or the row read from the repository, kept in local[p] for GetFill.
ReadThrough(p, id) ==
    \E r \in LookAside(id) :
       /\ cache' = r.cache
       /\ \/ r.err # "none" /\ Finish(p, r.err) /\ UNCHANGED local
          \/ r.err = "none" /\ r.hit /\ Finish(p, "ok") /\ UNCHANGED local
          \/ /\ r.err = "none" /\ ~r.hit
             /\ local' = [local EXCEPT ![p] = r.val]
             /\ Goto(p, "get_fill") /\ UNCHANGED result

-----------------------------------------------------------------------------
(* AcceptOrder.                                                            *)

\* OrderService.AcceptOrder from entry to repo.Create: the deadline check,
\* the existence check through repo.GetByID (whose error is ignored, so a
\* failed read lets the call on), and the input checks (id, weight, cost,
\* packaging), abstracted to `valid`.  op tells the endpoint call from an
\* import entry; only req, local, pc and result change.
AcceptEntry(p, op, id, c, d) ==
    /\ req' = [req EXCEPT ![p] = [op |-> op, id |-> id, customer |-> c,
                                  deadline |-> d]]
    /\ \E readFails \in Fails, valid \in BOOLEAN :
          \/ /\ clock > d
             /\ Finish(p, "DeadlinePassed") /\ UNCHANGED local
          \/ /\ clock <= d /\ db[id] # NoOrder /\ ~readFails
             /\ Finish(p, "OrderExists") /\ UNCHANGED local
          \/ /\ clock <= d /\ (db[id] = NoOrder \/ readFails) /\ ~valid
             /\ Finish(p, "InvalidArgument") /\ UNCHANGED local
          \/ /\ clock <= d /\ (db[id] = NoOrder \/ readFails) /\ valid
             /\ local' = [local EXCEPT ![p] =
                    [state |-> "accepted", customer |-> c, deadline |-> d,
                     deliveredAt |-> None, returnedAt |-> None]]
             /\ Goto(p, "acc_create") /\ UNCHANGED result

\* The CreateOrder handler (HTTP and gRPC): its own checks of weight, cost
\* and the deadline string answer InvalidArgument before the service runs;
\* after a successful AcceptOrder it reads the order back (AccLog).
AcceptOrder(p, id, c, d) ==
    /\ pc[p] = "idle"
    /\ \/ /\ Finish(p, "InvalidArgument") /\ UNCHANGED <<req, local>>
       \/ AcceptEntry(p, "accept", id, c, d)
    /\ UNCHANGED <<db, cache, clock, backend, audited, now, todo,
                   batch, up, restarts>>

\* The SELECT EXISTS(... FOR UPDATE) of repo.Create finds the row.  On a
\* missing row FOR UPDATE locks nothing.
CreateConflict(id) == db[id] # NoOrder

\* repo.Create, first half: Begin and the existence check.  A row found
\* gives repository.ErrOrderAlreadyExists, which is not the service's
\* ErrOrderExists: both handlers answer it 500 / Internal.
AccCreate(p) ==
    LET id == req[p].id IN
    /\ pc[p] = "acc_create"
    /\ \E fail \in Fails :
          \/ fail /\ Finish(p, "Infra")
          \/ /\ ~fail /\ CreateConflict(id)
             /\ Finish(p, "OrderAlreadyExists")
          \/ /\ ~fail /\ ~CreateConflict(id)
             /\ Goto(p, "acc_insert") /\ UNCHANGED result
    /\ UNCHANGED <<db, cache, clock, backend, req, local, audited, now, todo,
                   batch, up, restarts>>

\* repo.Create, second half: the INSERT and the Commit.  A row inserted by
\* a concurrent Create since the check makes the INSERT fail on the primary
\* key (answered 500 / Internal).
AccInsert(p) ==
    LET id == req[p].id IN
    /\ pc[p] = "acc_insert"
    /\ \E fail \in Fails :
          \/ fail /\ Finish(p, "Infra") /\ UNCHANGED db
          \/ /\ ~fail /\ db[id] # NoOrder
             /\ Finish(p, "UniqueViolation") /\ UNCHANGED db
          \/ /\ ~fail /\ db[id] = NoOrder
             /\ db' = [db EXCEPT ![id] = local[p]]
             /\ Goto(p, "acc_cache") /\ UNCHANGED result
    /\ UNCHANGED <<cache, clock, backend, req, local, audited, now, todo,
                   batch, up, restarts>>

AccCache(p) ==
    /\ pc[p] = "acc_cache"
    /\ SetOrder(p, local[p], "acc_log")
    /\ UNCHANGED <<db, clock, backend, req, local, audited, now,
                   todo, batch, up, restarts>>

\* AcceptOrder's audit event; the endpoint handler then calls
\* GetOrderByID, the import loop emits its own second event (ImpLog).
AccLog(p) ==
    /\ pc[p] = "acc_log"
    /\ audited' = [audited EXCEPT ![req[p].id] = "accepted"]
    /\ \/ req[p].op = "accept" /\ ReadThrough(p, req[p].id)
       \/ /\ req[p].op = "import"
          /\ Goto(p, "imp_log") /\ UNCHANGED <<cache, local, result>>
    /\ UNCHANGED <<db, clock, backend, req, now, todo, batch, up, restarts>>

-----------------------------------------------------------------------------
(* AcceptOrdersFromFile: the handler stores the upload in a temp file, the *)
(* service reads the JSON array and calls AcceptOrder for each entry in    *)
(* order, stopping at the first error with the earlier entries committed, *)
(* and after each accepted entry logs a second none -> accepted event.     *)

\* One entry: its deadline_at string is parsed first (ErrInvalidDateFormat).
ImportEntry(p, e) ==
    \/ Finish(p, "InvalidArgument") /\ UNCHANGED <<req, local>>
    \/ AcceptEntry(p, "import", e.id, e.customer, e.deadline)

\* Saving the upload (500) or reading and parsing the file (400) may fail
\* before any entry is reached.
AcceptOrdersFromFile(p, f) ==
    /\ pc[p] = "idle"
    /\ \/ /\ \E r \in {"InvalidArgument"} \cup
                      (IF InfraMayFail THEN {"Infra"} ELSE {}) :
                Finish(p, r)
          /\ UNCHANGED <<req, local, batch>>
       \/ f = <<>> /\ Finish(p, "ok") /\ UNCHANGED <<req, local, batch>>
       \/ /\ f # <<>>
          /\ batch' = [batch EXCEPT ![p] = Tail(f)]
          /\ ImportEntry(p, Head(f))
    /\ UNCHANGED <<db, cache, clock, backend, audited, now, todo, up, restarts>>

\* The loop's own LogOrderStatusChange, then the next entry or success.
ImpLog(p) ==
    /\ pc[p] = "imp_log"
    /\ audited' = [audited EXCEPT ![req[p].id] = "accepted"]
    /\ \/ batch[p] = <<>> /\ Finish(p, "ok") /\ UNCHANGED <<req, local, batch>>
       \/ /\ batch[p] # <<>>
          /\ batch' = [batch EXCEPT ![p] = Tail(@)]
          /\ ImportEntry(p, Head(batch[p]))
    /\ UNCHANGED <<db, cache, clock, backend, now, todo, up, restarts>>

-----------------------------------------------------------------------------
(* ProcessCustomer (handler/user.go, grpc/order.go) reads time.Now() once *)
(* and then calls DeliverOrder or ProcessReturnOrder for each order id of  *)
(* the batch with that same `now`.  A client's calls between two          *)
(* HandlerNow steps form one batch.                                        *)

\* Fault variant: the handler's time reading one tick ahead of the clock.
HandlerNowAhead(p) ==
    /\ pc[p] = "idle"
    /\ now' = [now EXCEPT ![p] = clock + 1]
    /\ UNCHANGED <<db, cache, clock, backend, pc, req, local, result, audited,
                   todo, batch, up, restarts>>

HandlerNow(p) ==
    /\ pc[p] = "idle"
    /\ now' = [now EXCEPT ![p] = clock]
    /\ UNCHANGED <<db, cache, clock, backend, pc, req, local, result, audited,
                   todo, batch, up, restarts>>

(* DeliverOrder.                                                           *)

DeliverOrder(p, id, c) ==
    /\ pc[p] = "idle"
    /\ req' = [req EXCEPT ![p] = [op |-> "deliver", id |-> id, customer |-> c,
                                  deadline |-> None]]
    /\ \E r \in LookAside(id) :
          LET o == r.val IN
          /\ cache' = r.cache
          /\ \/ r.err # "none" /\ Finish(p, r.err) /\ UNCHANGED local
             \/ /\ r.err = "none" /\ o.customer # c
                /\ Finish(p, "WrongCustomer") /\ UNCHANGED local
             \/ /\ r.err = "none" /\ o.customer = c /\ o.state # "accepted"
                /\ Finish(p, "WrongState") /\ UNCHANGED local
             \/ /\ r.err = "none" /\ o.customer = c /\ o.state = "accepted"
                /\ now[p] > o.deadline
                /\ Finish(p, "StorageExpired") /\ UNCHANGED local
             \/ /\ r.err = "none" /\ o.customer = c /\ o.state = "accepted"
                /\ now[p] <= o.deadline
                /\ local' = [local EXCEPT ![p] =
                       [o EXCEPT !.state = "delivered", !.deliveredAt = now[p]]]
                /\ Goto(p, "dlv_update") /\ UNCHANGED result
    /\ UNCHANGED <<db, clock, backend, audited, now, todo, batch, up, restarts>>

DlvUpdate(p) ==
    /\ pc[p] = "dlv_update"
    /\ RepoUpdate(p, "dlv_cache")
    /\ UNCHANGED <<cache, clock, backend, req, local, audited, now,
                   todo, batch, up, restarts>>

DlvCache(p) ==
    /\ pc[p] = "dlv_cache"
    /\ SetOrder(p, local[p], "dlv_log")
    /\ UNCHANGED <<db, clock, backend, req, local, audited, now,
                   todo, batch, up, restarts>>

DlvLog(p) ==
    /\ pc[p] = "dlv_log"
    /\ LogStatus(p, "delivered")
    /\ UNCHANGED <<db, cache, clock, backend, req, local, now, todo,
                   batch, up, restarts>>

-----------------------------------------------------------------------------
(* ProcessReturnOrder.                                                     *)

\* Fault variant: the 48h comparison off by one tick.
WithinReturnWindowLate(t, o) == t <= o.deliveredAt + ReturnWindow + 1

\* now.Sub(*order.DeliveredAt) > ReturnedAt is the expired case.
WithinReturnWindow(t, o) == t <= o.deliveredAt + ReturnWindow

ProcessReturnOrder(p, id, c) ==
    /\ pc[p] = "idle"
    /\ req' = [req EXCEPT ![p] = [op |-> "return", id |-> id, customer |-> c,
                                  deadline |-> None]]
    /\ \E r \in LookAside(id) :
          LET o == r.val IN
          /\ cache' = r.cache
          /\ \/ r.err # "none" /\ Finish(p, r.err) /\ UNCHANGED local
             \/ /\ r.err = "none" /\ o.customer # c
                /\ Finish(p, "WrongCustomer") /\ UNCHANGED local
             \/ /\ r.err = "none" /\ o.customer = c /\ o.state # "delivered"
                /\ Finish(p, "NotDelivered") /\ UNCHANGED local
             \/ /\ r.err = "none" /\ o.customer = c /\ o.state = "delivered"
                /\ ~WithinReturnWindow(now[p], o)
                /\ Finish(p, "ReturnExpired") /\ UNCHANGED local
             \/ /\ r.err = "none" /\ o.customer = c /\ o.state = "delivered"
                /\ WithinReturnWindow(now[p], o)
                /\ local' = [local EXCEPT ![p] =
                       [o EXCEPT !.state = "returned", !.returnedAt = now[p]]]
                /\ Goto(p, "ret_update") /\ UNCHANGED result
    /\ UNCHANGED <<db, clock, backend, audited, now, todo, batch, up, restarts>>

RetUpdate(p) ==
    /\ pc[p] = "ret_update"
    /\ RepoUpdate(p, "ret_cache")
    /\ UNCHANGED <<cache, clock, backend, req, local, audited, now,
                   todo, batch, up, restarts>>

\* Fault variant: ProcessReturnOrder without its cache.DeleteOrder.
RetCacheSkipped(p) ==
    /\ pc[p] = "ret_cache"
    /\ Goto(p, "ret_log")
    /\ UNCHANGED <<db, cache, clock, backend, req, local, result, audited,
                   now, todo, batch, up, restarts>>

RetCache(p) ==
    /\ pc[p] = "ret_cache"
    /\ DeleteOrder(p, "ret_log")
    /\ UNCHANGED <<db, clock, backend, req, local, audited, now,
                   todo, batch, up, restarts>>

RetLog(p) ==
    /\ pc[p] = "ret_log"
    /\ LogStatus(p, "returned")
    /\ UNCHANGED <<db, cache, clock, backend, req, local, now, todo,
                   batch, up, restarts>>

-----------------------------------------------------------------------------
(* ReturnOrderToCourier.  local[p] keeps the order read, whose state the   *)
(* audit event reports as the old status.                                  *)

ReturnOrderToCourier(p, id) ==
    /\ pc[p] = "idle"
    /\ req' = [req EXCEPT ![p] = [op |-> "courier", id |-> id, customer |-> None,
                                  deadline |-> None]]
    /\ \E r \in LookAside(id) :
          LET o == r.val IN
          /\ cache' = r.cache
          /\ \/ r.err # "none" /\ Finish(p, r.err) /\ UNCHANGED local
             \/ /\ r.err = "none" /\ o.state = "delivered"
                /\ Finish(p, "AlreadyDelivered") /\ UNCHANGED local
             \/ /\ r.err = "none" /\ o.state = "accepted" /\ clock < o.deadline
                /\ Finish(p, "DeadlineNotExpired") /\ UNCHANGED local
             \/ /\ r.err = "none"
                /\ \/ o.state = "returned"
                   \/ o.state = "accepted" /\ clock >= o.deadline
                /\ local' = [local EXCEPT ![p] = o]
                /\ Goto(p, "rtc_cache") /\ UNCHANGED result
    /\ UNCHANGED <<db, clock, backend, audited, now, todo, batch, up, restarts>>

RtcCache(p) ==
    /\ pc[p] = "rtc_cache"
    /\ DeleteOrder(p, "rtc_delete")
    /\ UNCHANGED <<db, clock, backend, req, local, audited, now,
                   todo, batch, up, restarts>>

\* repo.Delete: SELECT EXISTS ... FOR UPDATE, then DELETE, in one transaction.
RtcDelete(p) ==
    LET id == req[p].id IN
    /\ pc[p] = "rtc_delete"
    /\ \E fail \in Fails :
          \/ /\ fail
             /\ Finish(p, "Infra") /\ UNCHANGED db
          \/ /\ ~fail /\ db[id] = NoOrder
             /\ Finish(p, "NotFound") /\ UNCHANGED db
          \/ /\ ~fail /\ db[id] # NoOrder
             /\ db' = [db EXCEPT ![id] = NoOrder]
             /\ Goto(p, "rtc_log") /\ UNCHANGED result
    /\ UNCHANGED <<cache, clock, backend, req, local, audited, now, todo,
                   batch, up, restarts>>

RtcLog(p) ==
    /\ pc[p] = "rtc_log"
    /\ LogStatus(p, "deleted")
    /\ UNCHANGED <<db, cache, clock, backend, req, local, now, todo,
                   batch, up, restarts>>

-----------------------------------------------------------------------------
(* GetOrderByID: on a cache miss it reads the repository and, if the order *)
(* is not RETURNED and its deadline is after time.Now(), fills the cache;  *)
(* a fill error is only logged.                                            *)

\* The GetOrder handler (HTTP and gRPC) calling GetOrderByID.
GetOrderByID(p, id) ==
    /\ pc[p] = "idle"
    /\ req' = [req EXCEPT ![p] = [op |-> "get", id |-> id, customer |-> None,
                                  deadline |-> None]]
    /\ ReadThrough(p, id)
    /\ UNCHANGED <<db, clock, backend, audited, now, todo, batch, up, restarts>>

GetFill(p) ==
    LET o == local[p] IN
    /\ pc[p] = "get_fill"
    /\ \E fail \in Fails :
          IF o.state # "returned" /\ o.deadline > clock /\ ~fail
          THEN cache' = [cache EXCEPT ![req[p].id] = o]
          ELSE UNCHANGED cache
    /\ Finish(p, "ok")
    /\ UNCHANGED <<db, clock, backend, req, local, audited, now,
                   todo, batch, up, restarts>>

-----------------------------------------------------------------------------
(* ClearDatabase (test/admin endpoint): repo.List of every order, then     *)
(* repo.Delete of each listed id, one transaction per id, aborting at the  *)
(* first error, and only then cache.ClearOrderCache.  No audit event is    *)
(* emitted.  The list is taken ORDER BY updated_at DESC; the model deletes *)
(* the listed ids in any order.                                            *)

\* repo.List(ctx, ""): every row, whatever its state.
ListAll == {id \in Orders : db[id] # NoOrder}

ClearDatabase(p) ==
    /\ p \in Admins
    /\ pc[p] = "idle"
    /\ req' = [req EXCEPT ![p] = [op |-> "clear", id |-> None, customer |-> None,
                                  deadline |-> None]]
    /\ \E fail \in Fails :
          \/ /\ fail
             /\ Finish(p, "Infra") /\ UNCHANGED todo
          \/ /\ ~fail
             /\ todo' = [todo EXCEPT ![p] = ListAll]
             /\ Goto(p, "clr_delete") /\ UNCHANGED result
    /\ UNCHANGED <<db, cache, clock, backend, now, local, audited,
                   batch, up, restarts>>

\* One iteration of the delete loop: repo.Delete of a listed id, whose
\* SELECT EXISTS ... FOR UPDATE reports a row already gone as ErrOrderNotFound.
ClrDelete(p) ==
    /\ pc[p] = "clr_delete"
    /\ \/ /\ todo[p] = {}
          /\ Goto(p, "clr_cache") /\ UNCHANGED <<db, result, todo>>
       \/ \E id \in todo[p], fail \in Fails :
             \/ /\ fail
                /\ Finish(p, "Infra") /\ UNCHANGED <<db, todo>>
             \/ /\ ~fail /\ db[id] = NoOrder
                /\ Finish(p, "NotFound") /\ UNCHANGED <<db, todo>>
             \/ /\ ~fail /\ db[id] # NoOrder
                /\ db' = [db EXCEPT ![id] = NoOrder]
                /\ todo' = [todo EXCEPT ![p] = @ \ {id}]
                /\ UNCHANGED <<pc, result>>
    /\ UNCHANGED <<cache, clock, backend, req, local, audited, now, batch, up, restarts>>

\* Fault variant: ClearDatabase returning before it clears the cache.
ClrCacheSkipped(p) ==
    /\ pc[p] = "clr_cache"
    /\ Finish(p, "ok")
    /\ UNCHANGED <<db, cache, clock, backend, req, local, audited, now,
                   todo, batch, up, restarts>>

\* The keys KEYS order:* returns on redis.
CachedKeys == {id \in Orders : cache[id] # NoOrder}

\* cache.ClearOrderCache.  In memory: the LRU list and map are reset under
\* the lock.  Redis: KEYS order:* and, if any key came back, one DEL of
\* those keys, as two calls.
ClrCache(p) ==
    /\ pc[p] = "clr_cache"
    /\ \E fail \in Fails :
          \/ /\ fail
             /\ Finish(p, "Infra") /\ UNCHANGED <<cache, todo>>
          \/ /\ ~fail /\ backend = "inmem"
             /\ cache' = [id \in Orders |-> NoOrder]
             /\ Finish(p, "ok") /\ UNCHANGED todo
          \/ /\ ~fail /\ backend = "redis"
             /\ \/ CachedKeys = {} /\ Finish(p, "ok") /\ UNCHANGED todo
                \/ /\ CachedKeys # {}
                   /\ todo' = [todo EXCEPT ![p] = CachedKeys]
                   /\ Goto(p, "clr_del") /\ UNCHANGED result
             /\ UNCHANGED cache
    /\ UNCHANGED <<db, clock, backend, req, local, audited, now,
                   batch, up, restarts>>

\* The DEL of the keys KEYS returned.
ClrDel(p) ==
    /\ pc[p] = "clr_del"
    /\ \E fail \in Fails :
          \/ fail /\ Finish(p, "Infra") /\ UNCHANGED cache
          \/ /\ ~fail
             /\ cache' = [id \in Orders |-> IF id \in todo[p] THEN NoOrder
                                                               ELSE cache[id]]
             /\ Finish(p, "ok")
    /\ UNCHANGED <<db, clock, backend, req, local, audited, now,
                   todo, batch, up, restarts>>

-----------------------------------------------------------------------------
(* Process restart.  SIGTERM shuts the HTTP server down with a 10s budget *)
(* and the gRPC server with GracefulStop, so requests drain first.  The    *)
(* new process runs SetCashType: the in-memory cache starts empty, the     *)
(* redis keys survive, and InitCache loads repo.ListActual and calls       *)
(* SetOrder for each order, returning the first error; initServices then  *)
(* exits through logger.Fatalf.  A supervisor may start it again.          *)

\* repo.ListActual: the orders in state accepted or delivered.
ListActual ==
    {id \in Orders : /\ db[id] # NoOrder
                     /\ db[id].state \in {"accepted", "delivered"}}

\* InitCache of both backends over the cache `base` the new process starts
\* with.  The actual orders are set in turn (ORDER BY updated_at DESC, here
\* in any order); `set` are those set before InitCache returns.  Without an
\* infrastructure error it stops only at an order SetOrder refuses, its
\* deadline being past; the process is up only if every order was set.
WarmCache(base) ==
    \E set \in SUBSET ListActual, fail \in Fails :
       /\ \A id \in set : Cacheable(db[id])
       /\ ~fail => \/ set = ListActual
                   \/ \E id \in ListActual \ set : ~Cacheable(db[id])
       /\ fail => set # ListActual \/ ListActual = {}
       /\ cache' = [id \in Orders |-> IF id \in set THEN db[id] ELSE base[id]]
       /\ up' = (~fail /\ set = ListActual)

\* NewInMemoryCache: the new process starts with an empty map (and its
\* cleanup ticker), then runs InitCache.
InMemoryInitCache == WarmCache([id \in Orders |-> NoOrder])

\* NewRedisCache: a client of the server, whose keys outlive the process;
\* a failed Ping is one of WarmCache's infrastructure errors.
RedisInitCache == WarmCache(cache)

Restart ==
    /\ \A p \in Clients : pc[p] = "idle"
    /\ up => restarts < MaxRestarts
    /\ restarts' = IF up THEN restarts + 1 ELSE restarts
    /\ IF backend = "inmem" THEN InMemoryInitCache ELSE RedisInitCache
    /\ UNCHANGED <<db, clock, backend, pc, now, req, local, result, audited,
                   todo, batch>>

-----------------------------------------------------------------------------
(* Background steps.                                                       *)

\* An entry leaves the cache without a request: the in-memory LRU evicting
\* its back entry, its TTL reaper, or a redis key expiring.
CacheEvict(id) ==
    /\ cache[id] # NoOrder
    /\ cache' = [cache EXCEPT ![id] = NoOrder]
    /\ UNCHANGED <<db, clock, backend, pc, now, req, local, result, audited,
                   todo, batch, up, restarts>>

Tick ==
    /\ clock < MaxTime
    /\ clock' = clock + 1
    /\ UNCHANGED <<db, cache, backend, pc, req, local, result, audited,
                   now,
                   todo, batch, up, restarts>>

Next ==
    \/ up /\ \E p \in Clients :
          \/ \E id \in Orders :
                \/ \E c \in Customers, d \in Deadlines : AcceptOrder(p, id, c, d)
                \/ \E c \in Customers : DeliverOrder(p, id, c)
                \/ \E c \in Customers : ProcessReturnOrder(p, id, c)
                \/ ReturnOrderToCourier(p, id)
                \/ GetOrderByID(p, id)
          \/ HandlerNow(p)
          \/ AccCreate(p) \/ AccInsert(p) \/ AccCache(p) \/ AccLog(p)
          \/ DlvUpdate(p) \/ DlvCache(p) \/ DlvLog(p)
          \/ RetUpdate(p) \/ RetCache(p) \/ RetLog(p)
          \/ RtcCache(p) \/ RtcDelete(p) \/ RtcLog(p)
          \/ GetFill(p)
          \/ \E f \in Files : AcceptOrdersFromFile(p, f)
          \/ ImpLog(p)
          \/ ClearDatabase(p) \/ ClrDelete(p) \/ ClrCache(p) \/ ClrDel(p)
    \/ \E id \in Orders : CacheEvict(id)
    \/ Restart
    \/ Tick

Spec == Init /\ [][Next]_vars

-----------------------------------------------------------------------------
(* Properties.                                                             *)

\* The orders table, seen without the cache and the requests in flight,
\* moves as OrderLifecycle allows.
Lifecycle == INSTANCE OrderLifecycle
                 WITH orders <- db,
                      clearing <- \E p \in Clients : pc[p] = "clr_delete"

\* Refinement: every change the service makes to the orders table (Create,
\* Update, Delete) is an Accept, Deliver, Return or Reclaim of the abstract
\* lifecycle, with delivery not after the deadline, a return within the
\* window after the delivery and a courier reclaim only when allowed; only
\* the delete loop of ClearDatabase removes orders in other states.
LifecycleRefined == Lifecycle!Spec

\* Look-aside coherence: when no call is in flight, a cache entry that
\* GetOrder would serve (deadline not passed) equals the stored row, so the
\* checks of DeliverOrder/ProcessReturnOrder never run on a superseded order.
CacheCoherent ==
    (\A p \in Clients : pc[p] = "idle") =>
        \A id \in Orders : Fresh(id) => cache[id] = db[id]

DeletionOnlyWhenAllowed ==
    [][\A id \in Orders :
          db[id] # NoOrder /\ db'[id] = NoOrder =>
             \/ db[id].state = "returned"
             \/ db[id].state = "accepted" /\ db[id].deadline <= clock]_<<db, clock>>

\* Spec 7: the cache-miss kinds never propagate beyond the service, they
\* trigger the repository fallback.  No call of the service answers its
\* caller with NotFoundInCache, whichever backend serves the cache.
CacheMissNeverPropagates == \A p \in Clients : result[p] # "NotFoundInCache"

=============================================================================
