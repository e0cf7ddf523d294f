-------------------------- MODULE PartnerCommerce --------------------------
(***************************************************************************)
(* Orders and bookings as the partner moves them through their lifecycle:  *)
(* services/partner/commerce.service.js.                                   *)
(*                                                                         *)
(* Several HTTP requests run at once, each a chain of awaits in the same   *)
(* Node process or in another one.  A handler first loads the row          *)
(* (findOrderById, findBookingById), decides on what it loaded, and only   *)
(* then opens a transaction that writes the row and the ledger.  A request *)
(* is therefore two steps: the read and its checks, then the commit; any   *)
(* other request may commit between the two.  A transaction is one step,   *)
(* the strongest the database can make of it.  A request that is rejected  *)
(* (400, 404) changes nothing and is no step at all; one that fails after  *)
(* its checks (lost connection, crash of the process, rollback) is         *)
(* Fail(r).                                                                *)
(***************************************************************************)
EXTENDS WalletLedger, Sequelize

CONSTANTS
    Stores,     \* the partners' stores
    Orders,     \* orders, created by a checkout that is not in this code
    Bookings,   \* bookings, likewise
    StoreOf,    \* the store an order or a booking belongs to
    AmountOf,   \* totalAmountInInr of an order, priceAtBookingInInr of a booking
    Reasons,    \* the texts a partner may give
    NoReason,   \* the absence of one (undefined in a request, NULL in a row)
    Slots,      \* appointment times
    Requests    \* the HTTP requests that may be in flight at one time

ASSUME CommerceAssumption ==
    /\ Orders \cap Bookings = {}
    /\ StoreOf \in [Orders \cup Bookings -> Stores]
    /\ AmountOf \in [Orders \cup Bookings -> Nat]
    /\ NoReason \notin Reasons

VARIABLES
    orders,     \* the table orders
    bookings,   \* the table bookings
    ledger,     \* the table wallet_transactions
    reqs        \* what each request in flight holds in its local variables

vars == <<orders, bookings, ledger, reqs>>

----------------------------------------------------------------------------
(* Rows and requests *)

OrderStatus == {"NEW", "PACKED", "SHIPPED", "DELIVERED", "RETURNED", "CANCELLED"}

\* Mutant: a shipped order may be returned.
ReturnableTransitions ==
    [NEW |-> {"PACKED", "CANCELLED"}, PACKED |-> {"SHIPPED", "CANCELLED"},
     SHIPPED |-> {"DELIVERED", "RETURNED"}, DELIVERED |-> {"RETURNED"},
     RETURNED |-> {}, CANCELLED |-> {}]

OrderStatusTransitions ==
    [NEW       |-> {"PACKED", "CANCELLED"},
     PACKED    |-> {"SHIPPED", "CANCELLED"},
     SHIPPED   |-> {"DELIVERED"},
     DELIVERED |-> {"RETURNED"},
     RETURNED  |-> {},
     CANCELLED |-> {}]

BookingStatus == {"UPCOMING", "IN_PROGRESS", "COMPLETED", "CANCELLED"}

BookingStatusTransitions ==
    [UPCOMING    |-> {"IN_PROGRESS", "CANCELLED"},
     IN_PROGRESS |-> {"COMPLETED", "CANCELLED"},
     COMPLETED   |-> {},
     CANCELLED   |-> {}]

Reason == Reasons \cup {NoReason}

\* deliveredAt and completedAt: whether the column is set.
Order   == [status : OrderStatus, cancellationReason : Reason, deliveredAt : BOOLEAN]
Booking == [status : BookingStatus, cancellationReason : Reason,
            completedAt : BOOLEAN, scheduledAt : Slots]

Idle == [op |-> "idle"]

\* row is the instance the request loaded.
OrderRequest ==
    [op : {"order"}, store : Stores, id : Orders, status : OrderStatus,
     reason : Reason, row : Order]
BookingRequest ==
    [op : {"booking"}, store : Stores, id : Bookings, status : BookingStatus,
     reason : Reason, row : Booking]
RescheduleRequest ==
    [op : {"reschedule"}, id : Bookings, scheduledAt : Slots, row : Booking]

Request == {Idle} \cup OrderRequest \cup BookingRequest \cup RescheduleRequest

\* The cancellationReason column after a save that names it only when the
\* request carries a reason.
SavedReason(q, stored) ==
    IF q.reason = NoReason
    THEN stored
    ELSE Saved(q.reason, q.row.cancellationReason, stored)

\* Mutant: a return needs no reason.
UnexplainedReturn(order, status, reason) ==
    /\ status \in OrderStatusTransitions[order.status]
    /\ status = "CANCELLED" => reason # NoReason

\* The checks of setOrderStatus on the order it loaded: the move is legal
\* from there, and a reason is given when one is required.
OrderMayMove(order, status, reason) ==
    /\ status \in OrderStatusTransitions[order.status]
    /\ status \in {"CANCELLED", "RETURNED"} => reason # NoReason

\* The checks of setBookingStatus.
BookingMayMove(booking, status, reason) ==
    /\ status \in BookingStatusTransitions[booking.status]
    /\ status = "CANCELLED" => reason # NoReason

\* The ledger with a COMPLETED row of this type for the sale of request q.
WithEntry(q, type) ==
    CreateTransaction(ledger, q.store, type, AmountOf[q.id], q.id, "COMPLETED")

\* Mutant: a return leaves the ledger alone.
WithoutRefund(q) ==
    IF q.status = "DELIVERED" THEN WithEntry(q, "EARNING") ELSE ledger

\* The ledger after setOrderStatus: delivering earns, returning refunds.
WithOrderEntry(q) ==
    CASE q.status = "DELIVERED" -> WithEntry(q, "EARNING")
      [] q.status = "RETURNED"  -> WithEntry(q, "REFUND")
      [] OTHER                  -> ledger

\* The ledger after setBookingStatus: completing earns.
WithBookingEntry(q) ==
    IF q.status = "COMPLETED" THEN WithEntry(q, "EARNING") ELSE ledger

----------------------------------------------------------------------------
(* Actions *)

Init ==
    /\ orders = [o \in Orders |-> [status             |-> "NEW",
                                   cancellationReason |-> NoReason,
                                   deliveredAt        |-> FALSE]]
    /\ bookings \in [Bookings -> [status             : {"UPCOMING"},
                                  cancellationReason : {NoReason},
                                  completedAt        : {FALSE},
                                  scheduledAt        : Slots]]
    /\ ledger = <<>>
    /\ reqs = [r \in Requests |-> Idle]

\* Mutant: the order is looked up by its id alone.
SetAnyOrderStatus(r, s, o, status, reason) ==
    /\ reqs[r] = Idle
    /\ OrderMayMove(orders[o], status, reason)
    /\ reqs' = [reqs EXCEPT ![r] = [op     |-> "order",
                                    store  |-> s,
                                    id     |-> o,
                                    status |-> status,
                                    reason |-> reason,
                                    row    |-> orders[o]]]
    /\ UNCHANGED <<orders, bookings, ledger>>

\* setOrderStatus up to its transaction: the order is found under the store
\* of the partner who asks, and passes the checks.
SetOrderStatus(r, s, o, status, reason) ==
    /\ reqs[r] = Idle
    /\ StoreOf[o] = s
    /\ OrderMayMove(orders[o], status, reason)
    /\ reqs' = [reqs EXCEPT ![r] = [op     |-> "order",
                                    store  |-> s,
                                    id     |-> o,
                                    status |-> status,
                                    reason |-> reason,
                                    row    |-> orders[o]]]
    /\ UNCHANGED <<orders, bookings, ledger>>

\* The transaction of setOrderStatus: the row is saved, an EARNING is added
\* on DELIVERED and a REFUND on RETURNED.
CommitOrderStatus(r) ==
    LET q == reqs[r] IN
    /\ q.op = "order"
    /\ orders' = [orders EXCEPT ![q.id] =
           [status             |-> Saved(q.status, q.row.status, orders[q.id].status),
            cancellationReason |-> SavedReason(q, orders[q.id].cancellationReason),
            deliveredAt        |-> q.status = "DELIVERED" \/ orders[q.id].deliveredAt]]
    /\ ledger' = WithOrderEntry(q)
    /\ reqs' = [reqs EXCEPT ![r] = Idle]
    /\ UNCHANGED bookings

\* setBookingStatus up to its transaction.
SetBookingStatus(r, s, b, status, reason) ==
    /\ reqs[r] = Idle
    /\ StoreOf[b] = s
    /\ BookingMayMove(bookings[b], status, reason)
    /\ reqs' = [reqs EXCEPT ![r] = [op     |-> "booking",
                                    store  |-> s,
                                    id     |-> b,
                                    status |-> status,
                                    reason |-> reason,
                                    row    |-> bookings[b]]]
    /\ UNCHANGED <<orders, bookings, ledger>>

\* The transaction of setBookingStatus: an EARNING is added on COMPLETED.
CommitBookingStatus(r) ==
    LET q == reqs[r] IN
    /\ q.op = "booking"
    /\ bookings' = [bookings EXCEPT ![q.id] =
           [status             |-> Saved(q.status, q.row.status, bookings[q.id].status),
            cancellationReason |-> SavedReason(q, bookings[q.id].cancellationReason),
            completedAt        |-> q.status = "COMPLETED" \/ bookings[q.id].completedAt,
            scheduledAt        |-> bookings[q.id].scheduledAt]]
    /\ ledger' = WithBookingEntry(q)
    /\ reqs' = [reqs EXCEPT ![r] = Idle]
    /\ UNCHANGED orders

\* rescheduleBooking up to its update: the booking that was read is UPCOMING
\* and slot, which the clock allows, is the new time.
RescheduleBooking(r, s, b, slot) ==
    /\ reqs[r] = Idle
    /\ StoreOf[b] = s
    /\ bookings[b].status = "UPCOMING"
    /\ reqs' = [reqs EXCEPT ![r] = [op          |-> "reschedule",
                                    id          |-> b,
                                    scheduledAt |-> slot,
                                    row         |-> bookings[b]]]
    /\ UNCHANGED <<orders, bookings, ledger>>

\* The update of rescheduleBooking, which names scheduledAt alone.
CommitReschedule(r) ==
    LET q == reqs[r] IN
    /\ q.op = "reschedule"
    /\ bookings' = [bookings EXCEPT ![q.id].scheduledAt =
           Saved(q.scheduledAt, q.row.scheduledAt, bookings[q.id].scheduledAt)]
    /\ reqs' = [reqs EXCEPT ![r] = Idle]
    /\ UNCHANGED <<orders, ledger>>

\* A request that passed its checks dies before its commit, or its
\* transaction is rolled back: nothing was written.
Fail(r) ==
    /\ reqs[r] # Idle
    /\ reqs' = [reqs EXCEPT ![r] = Idle]
    /\ UNCHANGED <<orders, bookings, ledger>>

Next ==
    \E r \in Requests :
        \/ \E s \in Stores, o \in Orders, status \in OrderStatus, reason \in Reason :
              SetOrderStatus(r, s, o, status, reason)
        \/ CommitOrderStatus(r)
        \/ \E s \in Stores, b \in Bookings, status \in BookingStatus, reason \in Reason :
              SetBookingStatus(r, s, b, status, reason)
        \/ CommitBookingStatus(r)
        \/ \E s \in Stores, b \in Bookings, slot \in Slots : RescheduleBooking(r, s, b, slot)
        \/ CommitReschedule(r)
        \/ Fail(r)

Spec == Init /\ [][Next]_vars

----------------------------------------------------------------------------
(* Properties.  Sales are what a partner is paid for. *)

Sales == Orders \cup Bookings

\* Every variable holds what its table or its handler can hold.
TypeOK ==
    /\ orders \in [Orders -> Order]
    /\ bookings \in [Bookings -> Booking]
    /\ ledger \in Seq(WalletTransaction(Stores, Sales))
    /\ reqs \in [Requests -> Request]

\* Row i credits the store of sale x with its amount.
Credits(i, x) ==
    /\ ledger[i].type = "EARNING"
    /\ ledger[i].ref = x
    /\ ledger[i].store = StoreOf[x]
    /\ ledger[i].amount = AmountOf[x]
    /\ ledger[i].status = "COMPLETED"

Credited(x) == \E i \in DOMAIN ledger : Credits(i, x)

\* A partner is never shown a delivered (or since returned) order, or a
\* completed booking, without the full amount having been recorded for its
\* store: setOrderStatus and setBookingStatus write both in one transaction,
\* whatever other requests do to the row in between.
DeliveryIsPaid ==
    /\ \A o \in Orders : orders[o].status \in {"DELIVERED", "RETURNED"} => Credited(o)
    /\ \A b \in Bookings : bookings[b].status = "COMPLETED" => Credited(b)

\* deliveredAt and completedAt are set exactly for the sales that have been
\* paid, even for those a stale request has moved to another status since.
StampedWhenPaid ==
    /\ \A o \in Orders : orders[o].deliveredAt <=> Credited(o)
    /\ \A b \in Bookings : bookings[b].completedAt <=> Credited(b)

\* A cancelled or returned sale always says why, although a save skips the
\* reason when the instance already held the same text.
CancellationIsExplained ==
    /\ \A o \in Orders : orders[o].status \in {"CANCELLED", "RETURNED"}
                           => orders[o].cancellationReason # NoReason
    /\ \A b \in Bookings : bookings[b].status = "CANCELLED"
                             => bookings[b].cancellationReason # NoReason

\* A REFUND reverses an EARNING: the ledger holds that earning, of the same
\* order, store and amount, before it.
RefundFollowsEarning ==
    \A j \in DOMAIN ledger : ledger[j].type = "REFUND" =>
        \E i \in 1 .. j - 1 : /\ Credits(i, ledger[j].ref)
                               /\ ledger[i].store = ledger[j].store
                               /\ ledger[i].amount = ledger[j].amount

\* What a request in flight may rely on, though the row it loaded is stale:
\* it acts for the store that owns the row, its move was legal for the status
\* it loaded, and neither money nor a reason that was there has gone since.
\* This is what makes the four properties above survive stale writes.
SnapshotsAreSound ==
    \A r \in Requests : LET q == reqs[r] IN
        /\ q.op = "order" =>
               /\ q.store = StoreOf[q.id]
               /\ OrderMayMove(q.row, q.status, q.reason)
               /\ q.row.status \in {"DELIVERED", "RETURNED"} => Credited(q.id)
               /\ q.row.cancellationReason # NoReason
                      => orders[q.id].cancellationReason # NoReason
        /\ q.op = "booking" =>
               /\ q.store = StoreOf[q.id]
               /\ BookingMayMove(q.row, q.status, q.reason)
               /\ q.row.cancellationReason # NoReason
                      => bookings[q.id].cancellationReason # NoReason

\* "An order reaching DELIVERED and a booking reaching COMPLETED each write
\* one EARNING row" (models/WalletTransaction.js): no sale is paid twice.
EarnedAtMostOnce ==
    \A x \in Sales : \A i, j \in RowsFor(ledger, "EARNING", x) : i = j

----------------------------------------------------------------------------
(* What a settlement promises, and where its state is in this module *)

StatusOf(x) == IF x \in Orders THEN orders[x].status ELSE bookings[x].status

Phase(x) ==
    CASE StatusOf(x) \in {"DELIVERED", "COMPLETED"} -> "settled"
      [] StatusOf(x) = "RETURNED"                   -> "reversed"
      [] StatusOf(x) = "CANCELLED"                  -> "void"
      [] OTHER                                      -> "open"

Settlement == INSTANCE SaleSettlement WITH
    Returnable <- Orders,
    phase      <- [x \in Sales |-> Phase(x)],
    credits    <- [x \in Sales |-> Cardinality(RowsFor(ledger, "EARNING", x))],
    debits     <- [x \in Sales |-> Cardinality(RowsFor(ledger, "REFUND", x))]

\* Every step of the service is a settlement, a reversal or a cancellation of
\* one sale, with its one ledger row, or changes none of the three.
ImplementsSettlement == Settlement!Spec

============================================================================
