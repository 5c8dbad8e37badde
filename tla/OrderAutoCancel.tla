--------------------------- MODULE OrderAutoCancel ---------------------------
(***************************************************************************)
(* OrderCancelService (order_cancel_service.go): a goroutine that, at      *)
(* start-up and then on every ticker tick, queries at most 100 orders in   *)
(* pending_payment older than the configured hours, flips each one to      *)
(* cancelled with a conditional UPDATE ... WHERE status = pending_payment, *)
(* and then releases, one statement at a time and with no transaction,     *)
(* the resources the order holds: physical inventory reservations, virtual *)
(* stock, the promo code reservation and the serial numbers.               *)
(*                                                                         *)
(* Competing with it for the same orders: payment confirmation (MarkAsPaid)*)
(* and a user/admin cancellation, both outside src/ and modelled from the  *)
(* spec as single conditional updates.                                     *)
(***************************************************************************)
EXTENDS Naturals, FiniteSets, Sequences, FiniteSetsExt

CONSTANTS
    Orders,        \* order ids
    Sweepers,      \* service instances running cancelLoop against one database
    Inventories,   \* physical inventory ids
    VStock,        \* virtual stock rows (virtual_product_stocks)
    Promos,        \* promo code ids
    NoInventory,   \* an item with no (or a zero) entry in order.InventoryBindings
    NoPromo,       \* order.PromoCodeID == nil
    NoOrder,       \* a stock row with no order reference
    OrderItems,    \* [Orders -> Seq([inv : Inventories \cup {NoInventory}, qty : Nat])]
    OrderPromo,    \* [Orders -> Promos \cup {NoPromo}]
    StockOwner,    \* [VStock -> Orders]: the order the row was reserved for at creation
    StockKind,     \* [VStock -> {"static", "script"}]; "script" = legacy placeholder
    BatchLimit,    \* Limit(100) of the query
    MaxCrashes     \* bound on process crashes

ASSUME BatchLimit \in Nat \ {0} /\ MaxCrashes \in Nat

VARIABLES
    status,        \* order status column
    expired,       \* created_at < now - autoCancelHours
    reserved,      \* inventories.reserved_quantity
    held,          \* [Orders -> SUBSET item index]: item reservations not yet released
    vstock,        \* [VStock -> [status, order]]
    promoHeld,     \* [Orders -> BOOLEAN]: the order's promo reservation is not released
    promoReserved, \* [Promos -> Nat]: reserved count of the promo code
    serials,       \* [Orders -> BOOLEAN]: the order still has serial numbers
    sweeper,       \* [Sweepers -> [pc, batch, cur, idx]]: cancelLoop goroutine
    tickReady,     \* [Sweepers -> BOOLEAN]: ticker.C holds an undelivered tick
    stopClosed,    \* [Sweepers -> BOOLEAN]: stopChan has been closed by Stop
    paid,          \* history: orders whose payment was accepted
    faulted,       \* history: a release step for the order failed or was cut by a crash
    crashes

vars == <<status, expired, reserved, held, vstock, promoHeld, promoReserved,
          serials, sweeper, tickReady, stopClosed, paid, faulted, crashes>>
resourceVars == <<reserved, held, vstock, promoHeld, promoReserved, serials>>

Items(o) == DOMAIN OrderItems[o]
Bound(o) == {i \in Items(o) : OrderItems[o][i].inv # NoInventory}
\* Every (order, item index) pair with an inventory binding.
Slots == UNION {{<<o, i>> : i \in Bound(o)} : o \in Orders}
\* Total quantity of the slots in S bound to inventory inv.
QtyOn(inv, S) ==
    MapThenSumSet(LAMBDA p : OrderItems[p[1]][p[2]].qty,
                  {p \in S : OrderItems[p[1]][p[2]].inv = inv})
\* Outstanding reserved quantity of inventory inv according to the holds.
HeldQty(inv) == QtyOn(inv, {p \in Slots : p[2] \in held[p[1]]})

OrderStatus == {"pending_payment", "pending", "cancelled"}
StockStatus == {"available", "reserved", "sold", "deleted"}
SweeperPC   == {"query", "cas", "inventory", "virtual", "promo", "serial",
                "idle", "exited"}

TypeOK ==
    /\ status \in [Orders -> OrderStatus]
    /\ expired \in [Orders -> BOOLEAN]
    /\ reserved \in [Inventories -> Nat]
    /\ \A o \in Orders : held[o] \subseteq Bound(o)
    /\ vstock \in [VStock -> [status : StockStatus, order : Orders \cup {NoOrder}]]
    /\ promoHeld \in [Orders -> BOOLEAN]
    /\ promoReserved \in [Promos -> Nat]
    /\ serials \in [Orders -> BOOLEAN]
    /\ \A s \in Sweepers :
         /\ sweeper[s].pc \in SweeperPC
         /\ sweeper[s].batch \in SUBSET Orders
         /\ Cardinality(sweeper[s].batch) <= BatchLimit
         /\ sweeper[s].cur \in Orders \cup {NoOrder}
    /\ tickReady \in [Sweepers -> BOOLEAN]
    /\ stopClosed \in [Sweepers -> BOOLEAN]
    /\ paid \subseteq Orders
    /\ faulted \in [Orders -> BOOLEAN]
    /\ crashes \in 0..MaxCrashes

\* Every order has been created, its allocation made, and is awaiting payment.
Init ==
    /\ status = [o \in Orders |-> "pending_payment"]
    /\ expired = [o \in Orders |-> FALSE]
    /\ held = [o \in Orders |-> Bound(o)]
    /\ reserved = [inv \in Inventories |-> QtyOn(inv, Slots)]
    /\ vstock = [v \in VStock |-> [status |-> "reserved", order |-> StockOwner[v]]]
    /\ promoHeld = [o \in Orders |-> OrderPromo[o] # NoPromo]
    /\ promoReserved = [p \in Promos |-> Cardinality({o \in Orders : OrderPromo[o] = p})]
    /\ serials = [o \in Orders |-> TRUE]
    \* cancelLoop runs cancelExpiredOrders once immediately after Start
    /\ sweeper = [s \in Sweepers |-> [pc |-> "query", batch |-> {}, cur |-> NoOrder, idx |-> 1]]
    /\ tickReady = [s \in Sweepers |-> FALSE]
    /\ stopClosed = [s \in Sweepers |-> FALSE]
    /\ paid = {}
    /\ faulted = [o \in Orders |-> FALSE]
    /\ crashes = 0

-----------------------------------------------------------------------------
(* Collaborators outside src/, modelled from the spec.                     *)

\* InventoryRepository.ReleaseReserve(inventoryID, qty, orderNo): decrements
\* reserved_quantity; refuses (error) when fewer are reserved than released.
InventoryReleaseReserve(o, i) ==
    LET inv == OrderItems[o][i].inv
        q   == OrderItems[o][i].qty
    IN /\ reserved[inv] >= q
       /\ reserved' = [reserved EXCEPT ![inv] = @ - q]
       /\ held' = [held EXCEPT ![o] = @ \ {i}]

\* VirtualInventoryService.ReleaseStock(orderNo): reserved static rows of the
\* order go back to available; legacy script placeholders are deleted; sold
\* rows are untouched.
VirtualReleaseStock(o) ==
    vstock' = [v \in VStock |->
                 IF vstock[v].order = o /\ vstock[v].status = "reserved"
                 THEN IF StockKind[v] = "static"
                      THEN [status |-> "available", order |-> NoOrder]
                      ELSE [status |-> "deleted", order |-> o]
                 ELSE vstock[v]]

\* PromoCodeRepository.ReleaseReserve(promoID, orderNo).
PromoReleaseReserve(o) ==
    /\ promoHeld[o]
    /\ promoReserved' = [promoReserved EXCEPT ![OrderPromo[o]] = @ - 1]
    /\ promoHeld' = [promoHeld EXCEPT ![o] = FALSE]

\* Payment confirmation (MarkAsPaid): conditional pending_payment -> pending.
Pay(o) ==
    /\ status[o] = "pending_payment"
    /\ status' = [status EXCEPT ![o] = "pending"]
    /\ paid' = paid \cup {o}
    /\ UNCHANGED <<expired, resourceVars, sweeper, tickReady, stopClosed, faulted, crashes>>

\* Mutant: delivery without the check that the order is paid.
DeliverVirtualUnpaid(o) ==
    /\ \E v \in VStock : vstock[v].order = o /\ vstock[v].status = "reserved"
    /\ vstock' = [v \in VStock |->
                    IF vstock[v].order = o /\ vstock[v].status = "reserved"
                    THEN [vstock[v] EXCEPT !.status = "sold"] ELSE vstock[v]]
    /\ UNCHANGED <<paid, status, expired, reserved, held, promoHeld, promoReserved,
                   serials, sweeper, tickReady, stopClosed, faulted, crashes>>

\* Delivery of a paid order's virtual stock: its reserved rows become sold.
DeliverVirtual(o) ==
    /\ status[o] = "pending"
    /\ \E v \in VStock : vstock[v].order = o /\ vstock[v].status = "reserved"
    /\ vstock' = [v \in VStock |->
                    IF vstock[v].order = o /\ vstock[v].status = "reserved"
                    THEN [vstock[v] EXCEPT !.status = "sold"] ELSE vstock[v]]
    /\ UNCHANGED <<paid, status, expired, reserved, held, promoHeld, promoReserved,
                   serials, sweeper, tickReady, stopClosed, faulted, crashes>>

\* A user or admin cancellation (order service): the same conditional update,
\* with ReleaseForOrder done as one unit.
UserCancel(o) ==
    /\ status[o] = "pending_payment"
    /\ status' = [status EXCEPT ![o] = "cancelled"]
    /\ reserved' = [inv \in Inventories |->
                     reserved[inv] - QtyOn(inv, {<<o, i>> : i \in held[o]})]
    /\ held' = [held EXCEPT ![o] = {}]
    /\ VirtualReleaseStock(o)
    /\ IF promoHeld[o] THEN PromoReleaseReserve(o) ELSE UNCHANGED <<paid, promoHeld, promoReserved>>
    /\ serials' = [serials EXCEPT ![o] = FALSE]
    /\ UNCHANGED <<paid, expired, sweeper, tickReady, stopClosed, faulted, crashes>>

\* Time passes: the order's created_at falls behind now - autoCancelHours.
Expire(o) ==
    /\ ~expired[o]
    /\ expired' = [expired EXCEPT ![o] = TRUE]
    /\ UNCHANGED <<paid, status, resourceVars, sweeper, tickReady, stopClosed, faulted, crashes>>

-----------------------------------------------------------------------------
(* cancelLoop and cancelExpiredOrders.                                     *)

\* The goroutine's next step once one order of the batch is done.
AfterOrder(rest) == IF rest = {} THEN "idle" ELSE "cas"

Goto(s, pc) == sweeper' = [sweeper EXCEPT ![s].pc = pc]

\* Mutant: the query filters on the wrong status, so it never finds an order.
QueryExpiredWrongStatus(s) ==
    LET due == {o \in Orders : status[o] = "pending" /\ expired[o]}
    IN /\ sweeper[s].pc = "query"
       /\ \/ Goto(s, "idle")
          \/ \E b \in SUBSET due :
               /\ Cardinality(b) = Min({BatchLimit, Cardinality(due)})
               /\ sweeper' = [sweeper EXCEPT ![s].batch = b,
                                             ![s].pc = AfterOrder(b)]
       /\ UNCHANGED <<paid, status, expired, resourceVars, tickReady, stopClosed, faulted, crashes>>

\* Mutant: the query without its Limit(100).
QueryExpiredNoLimit(s) ==
    LET due == {o \in Orders : status[o] = "pending_payment" /\ expired[o]}
    IN /\ sweeper[s].pc = "query"
       /\ \/ Goto(s, "idle")
          \/ sweeper' = [sweeper EXCEPT ![s].batch = due, ![s].pc = AfterOrder(due)]
       /\ UNCHANGED <<paid, status, expired, resourceVars, tickReady, stopClosed, faulted, crashes>>

\* cancelExpiredOrders: the query; an error or an empty result ends the tick.
QueryExpired(s) ==
    LET due == {o \in Orders : status[o] = "pending_payment" /\ expired[o]}
    IN /\ sweeper[s].pc = "query"
       /\ \/ Goto(s, "idle")                         \* query error
          \/ \E b \in SUBSET due :
               /\ Cardinality(b) = Min({BatchLimit, Cardinality(due)})
               /\ sweeper' = [sweeper EXCEPT ![s].batch = b,
                                             ![s].pc = AfterOrder(b)]
       /\ UNCHANGED <<paid, status, expired, resourceVars, tickReady, stopClosed, faulted, crashes>>

\* Mutant: the UPDATE without its WHERE status = pending_payment.
CancelOrderCASNoStatusGuard(s) ==
    /\ sweeper[s].pc = "cas"
    /\ \E o \in sweeper[s].batch :
         /\ status' = [status EXCEPT ![o] = "cancelled"]
         /\ sweeper' = [sweeper EXCEPT ![s].batch = @ \ {o}, ![s].cur = o,
                                       ![s].idx = 1, ![s].pc = "inventory"]
    /\ UNCHANGED <<paid, expired, resourceVars, tickReady, stopClosed, faulted, crashes>>

\* Mutant: RowsAffected == 0 does not return; the release cascade runs anyway.
CancelOrderCASIgnoresRows(s) ==
    /\ sweeper[s].pc = "cas"
    /\ \E o \in sweeper[s].batch :
         /\ status' = [status EXCEPT ![o] = IF @ = "pending_payment" THEN "cancelled" ELSE @]
         /\ sweeper' = [sweeper EXCEPT ![s].batch = @ \ {o}, ![s].cur = o,
                                       ![s].idx = 1, ![s].pc = "inventory"]
    /\ UNCHANGED <<paid, expired, resourceVars, tickReady, stopClosed, faulted, crashes>>

\* cancelOrder, first statement: the conditional status update. Zero rows
\* affected returns nil and the loop goes on; an error is logged likewise.
CancelOrderCAS(s) ==
    /\ sweeper[s].pc = "cas"
    /\ \E o \in sweeper[s].batch :
         LET rest == sweeper[s].batch \ {o} IN
         \/ /\ status[o] = "pending_payment"
            /\ status' = [status EXCEPT ![o] = "cancelled"]
            /\ sweeper' = [sweeper EXCEPT ![s].batch = rest, ![s].cur = o,
                                          ![s].idx = 1, ![s].pc = "inventory"]
         \/ /\ status[o] # "pending_payment"
            /\ sweeper' = [sweeper EXCEPT ![s].batch = rest, ![s].pc = AfterOrder(rest)]
            /\ UNCHANGED status
         \/ /\ sweeper' = [sweeper EXCEPT ![s].batch = rest, ![s].pc = AfterOrder(rest)]
            /\ UNCHANGED status                      \* result.Error
    /\ UNCHANGED <<paid, expired, resourceVars, tickReady, stopClosed, faulted, crashes>>

\* A release that returned an error: logged, the cascade goes on.
ReleaseFails(o) == faulted' = [faulted EXCEPT ![o] = TRUE]

\* Mutant: the loop stops one item early.
ReleaseInventoryOffByOne(s) ==
    LET o == sweeper[s].cur
        i == sweeper[s].idx
    IN /\ sweeper[s].pc = "inventory"
       /\ IF i >= Len(OrderItems[o])
          THEN /\ Goto(s, "virtual")
               /\ UNCHANGED <<paid, reserved, held, faulted>>
          ELSE /\ sweeper' = [sweeper EXCEPT ![s].idx = i + 1]
               /\ IF i \in Bound(o)
                  THEN \/ InventoryReleaseReserve(o, i) /\ UNCHANGED faulted
                       \/ ReleaseFails(o) /\ UNCHANGED <<paid, reserved, held>>
                  ELSE UNCHANGED <<paid, reserved, held, faulted>>
       /\ UNCHANGED <<paid, status, expired, vstock, promoHeld, promoReserved, serials,
                      tickReady, stopClosed, crashes>>

\* The loop over order.Items releasing each bound physical reservation.
ReleaseInventory(s) ==
    LET o == sweeper[s].cur
        i == sweeper[s].idx
    IN /\ sweeper[s].pc = "inventory"
       /\ IF i > Len(OrderItems[o])
          THEN /\ Goto(s, "virtual")
               /\ UNCHANGED <<paid, reserved, held, faulted>>
          ELSE /\ sweeper' = [sweeper EXCEPT ![s].idx = i + 1]
               /\ IF i \in Bound(o)
                  THEN \/ InventoryReleaseReserve(o, i) /\ UNCHANGED faulted
                       \/ ReleaseFails(o) /\ UNCHANGED <<paid, reserved, held>>
                  ELSE UNCHANGED <<paid, reserved, held, faulted>>
       /\ UNCHANGED <<paid, status, expired, vstock, promoHeld, promoReserved, serials,
                      tickReady, stopClosed, crashes>>

ReleaseVirtual(s) ==
    LET o == sweeper[s].cur IN
    /\ sweeper[s].pc = "virtual"
    /\ Goto(s, "promo")
    /\ \/ VirtualReleaseStock(o) /\ UNCHANGED faulted
       \/ ReleaseFails(o) /\ UNCHANGED vstock
    /\ UNCHANGED <<paid, status, expired, reserved, held, promoHeld, promoReserved,
                   serials, tickReady, stopClosed, crashes>>

ReleasePromo(s) ==
    LET o == sweeper[s].cur IN
    /\ sweeper[s].pc = "promo"
    /\ Goto(s, "serial")
    /\ IF OrderPromo[o] # NoPromo
       THEN \/ PromoReleaseReserve(o) /\ UNCHANGED faulted
            \/ ReleaseFails(o) /\ UNCHANGED <<paid, promoHeld, promoReserved>>
       ELSE UNCHANGED <<paid, promoHeld, promoReserved, faulted>>
    /\ UNCHANGED <<paid, status, expired, reserved, held, vstock, serials,
                   tickReady, stopClosed, crashes>>

\* SerialService.DeleteSerialsByOrderID, then the audit log; next order.
DeleteSerials(s) ==
    LET o == sweeper[s].cur IN
    /\ sweeper[s].pc = "serial"
    /\ sweeper' = [sweeper EXCEPT ![s].pc = AfterOrder(sweeper[s].batch),
                                  ![s].cur = NoOrder]
    /\ \/ serials' = [serials EXCEPT ![o] = FALSE] /\ UNCHANGED faulted
       \/ ReleaseFails(o) /\ UNCHANGED serials
    /\ UNCHANGED <<paid, status, expired, reserved, held, vstock, promoHeld, promoReserved,
                   tickReady, stopClosed, crashes>>

-----------------------------------------------------------------------------
(* The ticker, the select in cancelLoop, Stop and crashes.                 *)

\* time.Ticker: a tick is buffered in ticker.C; ticks while it is full are dropped.
TickerFires(s) ==
    /\ sweeper[s].pc # "exited"
    /\ ~tickReady[s]
    /\ tickReady' = [tickReady EXCEPT ![s] = TRUE]
    /\ UNCHANGED <<paid, status, expired, resourceVars, sweeper, stopClosed, faulted, crashes>>

\* select: both cases may be ready; Go picks one of them at random.
SelectTick(s) ==
    /\ sweeper[s].pc = "idle"
    /\ tickReady[s]
    /\ tickReady' = [tickReady EXCEPT ![s] = FALSE]
    /\ Goto(s, "query")
    /\ UNCHANGED <<paid, status, expired, resourceVars, stopClosed, faulted, crashes>>

\* Mutant: the stop case does not return from the loop.
SelectStopNoReturn(s) ==
    /\ sweeper[s].pc = "idle"
    /\ stopClosed[s]
    /\ UNCHANGED vars

SelectStop(s) ==
    /\ sweeper[s].pc = "idle"
    /\ stopClosed[s]
    /\ Goto(s, "exited")
    /\ UNCHANGED <<paid, status, expired, resourceVars, tickReady, stopClosed, faulted, crashes>>

\* Stop: close(stopChan), then wg.Wait() until cancelLoop has returned.
Stop(s) ==
    /\ ~stopClosed[s]
    /\ stopClosed' = [stopClosed EXCEPT ![s] = TRUE]
    /\ UNCHANGED <<paid, status, expired, resourceVars, sweeper, tickReady, faulted, crashes>>

\* The process dies and is started again; an order whose cascade was running
\* keeps what was not yet released.
Crash(s) ==
    LET o == sweeper[s].cur IN
    /\ crashes < MaxCrashes
    /\ ~stopClosed[s]
    /\ crashes' = crashes + 1
    /\ faulted' = IF o # NoOrder THEN [faulted EXCEPT ![o] = TRUE] ELSE faulted
    /\ sweeper' = [sweeper EXCEPT ![s] = [pc |-> "query", batch |-> {}, cur |-> NoOrder, idx |-> 1]]
    /\ tickReady' = [tickReady EXCEPT ![s] = FALSE]
    /\ UNCHANGED <<paid, status, expired, resourceVars, stopClosed>>

-----------------------------------------------------------------------------

Environment ==
    \E o \in Orders : Pay(o) \/ DeliverVirtual(o) \/ UserCancel(o) \/ Expire(o)

SweeperStep(s) ==
    \/ QueryExpired(s) \/ CancelOrderCAS(s) \/ ReleaseInventory(s)
    \/ ReleaseVirtual(s) \/ ReleasePromo(s) \/ DeleteSerials(s)
    \/ SelectTick(s) \/ SelectStop(s)

Next ==
    \/ Environment
    \/ \E s \in Sweepers : SweeperStep(s) \/ TickerFires(s) \/ Stop(s) \/ Crash(s)

Spec == Init /\ [][Next]_vars

\* Ticks keep coming, the goroutine keeps running, Go's select picks the stop
\* case with probability 1/2 each time both are ready, and database errors are
\* transient: a statement tried again and again eventually succeeds.
FairSpec ==
    /\ Spec
    /\ \A s \in Sweepers :
         /\ WF_vars(SweeperStep(s))
         /\ WF_vars(TickerFires(s))
         /\ SF_vars(SelectStop(s))
         /\ SF_vars(QueryExpired(s) /\ sweeper'[s].batch # {})
         /\ \A o \in Orders : SF_vars(CancelOrderCAS(s) /\ status'[o] = "cancelled")

-----------------------------------------------------------------------------
(* Properties.                                                             *)

\* Everything the order holds has been given back.
Released(o) ==
    /\ held[o] = {}
    /\ ~promoHeld[o]
    /\ ~serials[o]
    /\ \A v \in VStock : vstock[v].order = o => vstock[v].status # "reserved"

\* A paid order keeps every reservation made for it: the sweep that selected
\* it while unpaid must not cancel it or release its stock after the payment
\* won the race (conditional update in cancelOrder, lines 141-153).
PaidOrderKeepsAllocation ==
    \A o \in paid :
        /\ status[o] = "pending"
        /\ held[o] = Bound(o)
        /\ \A v \in VStock : StockOwner[v] = o =>
              vstock[v].order = o /\ vstock[v].status \in {"reserved", "sold"}
        /\ promoHeld[o] = (OrderPromo[o] # NoPromo)
        /\ serials[o]

\* reserved_quantity of every inventory, and the reserved count of every promo
\* code, equal what the orders still hold: no cancellation path releases an
\* order's reservations twice (sweep against sweep, sweep against user cancel).
ReservationConservation ==
    /\ \A inv \in Inventories : reserved[inv] = HeldQty(inv)
    /\ \A p \in Promos : promoReserved[p] = Cardinality({o \in Orders : promoHeld[o] /\ OrderPromo[o] = p})

StopRequested == \A s \in Sweepers : stopClosed[s]

\* An unpaid order past the deadline is eventually paid or cancelled, unless
\* the services are being stopped (cancelExpiredOrders / cancelLoop).
ExpiredOrderLeavesPending ==
    \A o \in Orders :
        (expired[o] /\ status[o] = "pending_payment")
            ~> (status[o] # "pending_payment" \/ StopRequested)

\* Once an order is cancelled, everything it holds is eventually released,
\* unless one of the release statements failed or a crash cut the cascade
\* short (the only leaks cancelOrder tolerates, lines 155-186).
CancelledOrderReleased ==
    \A o \in Orders : status[o] = "cancelled" ~> (Released(o) \/ faulted[o])

\* Spec 5: the shutdown signal prevents new ticks; once stopChan is closed,
\* cancelLoop starts no further cancelExpiredOrders run.
NoSweepAfterStop ==
    [][\A s \in Sweepers :
          (stopClosed[s] /\ sweeper[s].pc = "idle") => sweeper'[s].pc # "query"]_vars

\* The refinement mapping onto OrderLifecycle: a paid order is "pending";
\* an order holds its unreleased item reservations, its promo reservation
\* and its serials as claims, and its reserved virtual stock rows as units.
Claim(kind, idx) == [kind |-> kind, idx |-> idx]
ClaimsOf(o) ==
    {Claim("inventory", i) : i \in held[o]}
    \cup (IF promoHeld[o] THEN {Claim("promo", 0)} ELSE {})
    \cup (IF serials[o] THEN {Claim("serial", 0)} ELSE {})
AllClaims ==
    {Claim("inventory", i) : i \in UNION {Bound(o) : o \in Orders}}
    \cup {Claim("promo", 0), Claim("serial", 0)}
UnitsOf(o) == {v \in VStock : vstock[v].order = o /\ vstock[v].status = "reserved"}

Lifecycle == INSTANCE OrderLifecycle WITH
    Units <- VStock,
    Claims <- AllClaims,
    ostatus <- [o \in Orders |-> IF status[o] = "pending" THEN "paid" ELSE status[o]],
    claims <- [o \in Orders |-> ClaimsOf(o)],
    units <- [o \in Orders |-> UnitsOf(o)],
    sold <- {v \in VStock : vstock[v].status = "sold"}

\* The sweep, with its ticks, batches, conditional update and statement-by-
\* statement cascade, implements the order lifecycle of spec 4.5: status
\* moves only from pending_payment, to paid or cancelled, resources go back
\* only from a cancelled order, and only a paid order's units are sold.
ImplementsLifecycle == Lifecycle!Spec

\* Stop returns: after close(stopChan) the loop eventually exits (wg.Wait).
StopDrains ==
    \A s \in Sweepers : stopClosed[s] ~> sweeper[s].pc = "exited"

=============================================================================
