---------------------------- MODULE SalesProofs ----------------------------
(***************************************************************************)
(* What a partner's sales and payouts keep: PartnerCommerce for any number *)
(* of orders, bookings, stores and concurrent requests; Wallet alone for   *)
(* any number of requests; the two on one ledger, while each sale is moved *)
(* and each balance drawn on by one request at a time; and that those      *)
(* implement SaleSettlement.                                               *)
(***************************************************************************)
EXTENDS PartnerSales, FiniteSetTheorems, SequenceTheorems, WellFoundedInduction, TLAPS

----------------------------------------------------------------------------
(* Rows of the ledger *)

\* A row that CreateTransaction appends has the type of the table.
LEMMA CreateTransactionType ==
    ASSUME NEW S, NEW R,
           NEW L \in Seq(WalletTransaction(S, R)),
           NEW store \in S, NEW type \in WalletTransactionType, NEW amount \in Nat,
           NEW ref \in R, NEW status \in WalletTransactionStatus
    PROVE  CreateTransaction(L, store, type, amount, ref, status)
               \in Seq(WalletTransaction(S, R))
BY DEF CreateTransaction, WalletTransaction

\* An order's amount is a number, and it is a sale.
LEMMA SaleConstants ==
    ASSUME NEW x \in Sales
    PROVE  AmountOf[x] \in Nat /\ StoreOf[x] \in Stores
BY CommerceAssumption DEF Sales

----------------------------------------------------------------------------
(* Type correctness *)

\* A step keeps the types, one action at a time.
LEMMA TypeStep == TypeOK /\ [Next]_vars => TypeOK'
<1> SUFFICES ASSUME TypeOK, [Next]_vars PROVE TypeOK'
  OBVIOUS
<1> USE DEF TypeOK
<1>1. ASSUME NEW r \in Requests, NEW s \in Stores, NEW o \in Orders,
             NEW status \in OrderStatus, NEW reason \in Reason,
             SetOrderStatus(r, s, o, status, reason)
      PROVE  TypeOK'
  <2>1. [op |-> "order", store |-> s, id |-> o, status |-> status,
         reason |-> reason, row |-> orders[o]] \in Request
    BY DEF Request, OrderRequest
  <2> QED
    BY <1>1, <2>1 DEF SetOrderStatus
<1>2. ASSUME NEW r \in Requests, CommitOrderStatus(r)
      PROVE  TypeOK'
  <2> DEFINE q == reqs[r]
  <2>1. q \in OrderRequest
    BY <1>2 DEF CommitOrderStatus, Request, Idle, OrderRequest, BookingRequest, RescheduleRequest
  <2>2. /\ q.id \in Orders /\ q.store \in Stores /\ q.status \in OrderStatus
        /\ q.reason \in Reason /\ q.row \in Order
    BY <2>1 DEF OrderRequest
  <2>3. orders' \in [Orders -> Order]
    <3>1. SavedReason(q, orders[q.id].cancellationReason) \in Reason
      BY <2>2 DEF SavedReason, Saved, Order
    <3>2. Saved(q.status, q.row.status, orders[q.id].status) \in OrderStatus
      BY <2>2 DEF Saved, Order
    <3>3. (q.status = "DELIVERED" \/ orders[q.id].deliveredAt) \in BOOLEAN
      OBVIOUS
    <3> QED
      BY <1>2, <2>2, <3>1, <3>2, <3>3 DEF CommitOrderStatus, Order
  <2>4. WithOrderEntry(q) \in Seq(WalletTransaction(Stores, Sales))
    <3>1. q.id \in Sales
      BY <2>2 DEF Sales
    <3> QED
      BY <2>2, <3>1, SaleConstants, CreateTransactionType
         DEF WithOrderEntry, WithEntry, WalletTransactionType, WalletTransactionStatus
  <2>5. reqs' \in [Requests -> Request]
    BY <1>2 DEF CommitOrderStatus, Request
  <2> QED
    BY <1>2, <2>3, <2>4, <2>5 DEF CommitOrderStatus
<1>3. ASSUME NEW r \in Requests, NEW s \in Stores, NEW b \in Bookings,
             NEW status \in BookingStatus, NEW reason \in Reason,
             SetBookingStatus(r, s, b, status, reason)
      PROVE  TypeOK'
  <2>1. [op |-> "booking", store |-> s, id |-> b, status |-> status,
         reason |-> reason, row |-> bookings[b]] \in Request
    BY DEF Request, BookingRequest
  <2> QED
    BY <1>3, <2>1 DEF SetBookingStatus
<1>4. ASSUME NEW r \in Requests, CommitBookingStatus(r)
      PROVE  TypeOK'
  <2> DEFINE q == reqs[r]
  <2>1. q \in BookingRequest
    BY <1>4 DEF CommitBookingStatus, Request, Idle, OrderRequest, BookingRequest, RescheduleRequest
  <2>2. /\ q.id \in Bookings /\ q.store \in Stores /\ q.status \in BookingStatus
        /\ q.reason \in Reason /\ q.row \in Booking
    BY <2>1 DEF BookingRequest
  <2>3. bookings' \in [Bookings -> Booking]
    <3>1. SavedReason(q, bookings[q.id].cancellationReason) \in Reason
      BY <2>2 DEF SavedReason, Saved, Booking
    <3>2. Saved(q.status, q.row.status, bookings[q.id].status) \in BookingStatus
      BY <2>2 DEF Saved, Booking
    <3>3. (q.status = "COMPLETED" \/ bookings[q.id].completedAt) \in BOOLEAN
      OBVIOUS
    <3> QED
      BY <1>4, <2>2, <3>1, <3>2, <3>3 DEF CommitBookingStatus, Booking
  <2>4. WithBookingEntry(q) \in Seq(WalletTransaction(Stores, Sales))
    <3>1. q.id \in Sales
      BY <2>2 DEF Sales
    <3> QED
      BY <2>2, <3>1, SaleConstants, CreateTransactionType
         DEF WithBookingEntry, WithEntry, WalletTransactionType, WalletTransactionStatus
  <2>5. reqs' \in [Requests -> Request]
    BY <1>4 DEF CommitBookingStatus, Request
  <2> QED
    BY <1>4, <2>3, <2>4, <2>5 DEF CommitBookingStatus
<1>5. ASSUME NEW r \in Requests, NEW s \in Stores, NEW b \in Bookings, NEW slot \in Slots,
             RescheduleBooking(r, s, b, slot)
      PROVE  TypeOK'
  <2>1. [op |-> "reschedule", id |-> b, scheduledAt |-> slot, row |-> bookings[b]] \in Request
    BY DEF Request, RescheduleRequest
  <2> QED
    BY <1>5, <2>1 DEF RescheduleBooking
<1>6. ASSUME NEW r \in Requests, CommitReschedule(r)
      PROVE  TypeOK'
  <2>1. reqs[r] \in RescheduleRequest
    BY <1>6 DEF CommitReschedule, Request, Idle, OrderRequest, BookingRequest, RescheduleRequest
  <2>2. reqs[r].id \in Bookings /\ reqs[r].scheduledAt \in Slots
    BY <2>1 DEF RescheduleRequest
  <2>3. bookings' \in [Bookings -> Booking]
    BY <1>6, <2>2 DEF CommitReschedule, Booking, Saved
  <2> QED
    BY <1>6, <2>3 DEF CommitReschedule, Request
<1>7. ASSUME NEW r \in Requests, Fail(r)
      PROVE  TypeOK'
  BY <1>7 DEF Fail, Request
<1>8. CASE UNCHANGED vars
  BY <1>8 DEF vars
<1> QED
  BY <1>1, <1>2, <1>3, <1>4, <1>5, <1>6, <1>7, <1>8 DEF Next

LEMMA TypeInit == Init => TypeOK
<1> SUFFICES ASSUME Init PROVE TypeOK
  OBVIOUS
<1>1. orders \in [Orders -> Order]
  BY DEF Init, Order, OrderStatus, Reason
<1>2. bookings \in [Bookings -> Booking]
  BY DEF Init, Booking, BookingStatus, Reason
<1>3. ledger \in Seq(WalletTransaction(Stores, Sales)) /\ reqs \in [Requests -> Request]
  BY DEF Init, Request
<1> QED
  BY <1>1, <1>2, <1>3 DEF TypeOK

\* The tables and the requests in flight always have their types.
THEOREM TypeCorrect == Spec => []TypeOK
BY TypeInit, TypeStep, PTL DEF Spec

----------------------------------------------------------------------------
(* The money invariants under concurrent requests *)

\* What the requests, the tables and the ledger keep together: the four
\* properties, and the facts about in-flight snapshots that make them
\* inductive.
CommerceInv ==
    /\ TypeOK
    /\ SnapshotsAreSound
    /\ DeliveryIsPaid
    /\ StampedWhenPaid
    /\ CancellationIsExplained
    /\ RefundFollowsEarning

\* A commit appends at most one row; rows already there stay.
LEMMA LedgerStep ==
    ASSUME TypeOK, NEW store \in Stores, NEW type \in WalletTransactionType,
           NEW x \in Sales,
           ledger' = CreateTransaction(ledger, store, type, AmountOf[x], x, "COMPLETED")
    PROVE  /\ Len(ledger') = Len(ledger) + 1
           /\ DOMAIN ledger = 1 .. Len(ledger)
           /\ DOMAIN ledger' = 1 .. Len(ledger) + 1
           /\ \A i \in 1 .. Len(ledger) : ledger'[i] = ledger[i]
           /\ ledger'[Len(ledger) + 1] = [store |-> store, type |-> type,
                                          amount |-> AmountOf[x], ref |-> x,
                                          status |-> "COMPLETED"]
<1>1. [store |-> store, type |-> type, amount |-> AmountOf[x], ref |-> x,
       status |-> "COMPLETED"] \in WalletTransaction(Stores, Sales)
  BY SaleConstants DEF WalletTransaction, WalletTransactionStatus
<1> QED
  BY <1>1 DEF TypeOK, CreateTransaction

\* Appending an EARNING of sale x for its own store credits x, and no other
\* sale; what was credited stays so.
LEMMA EarningCredits ==
    ASSUME TypeOK, NEW x \in Sales,
           ledger' = CreateTransaction(ledger, StoreOf[x], "EARNING", AmountOf[x], x, "COMPLETED")
    PROVE  \A y \in Sales : Credited(y)' <=> (y = x \/ Credited(y))
<1>1. /\ DOMAIN ledger = 1 .. Len(ledger)
      /\ DOMAIN ledger' = 1 .. Len(ledger) + 1
      /\ \A i \in 1 .. Len(ledger) : ledger'[i] = ledger[i]
      /\ ledger'[Len(ledger) + 1] = [store |-> StoreOf[x], type |-> "EARNING",
                                     amount |-> AmountOf[x], ref |-> x,
                                     status |-> "COMPLETED"]
      /\ Len(ledger) \in Nat
  BY LedgerStep, SaleConstants DEF WalletTransactionType, TypeOK
<1> QED
  BY <1>1 DEF Credited, Credits

\* Appending a REFUND credits nothing and takes no credit away.
LEMMA RefundKeepsCredits ==
    ASSUME TypeOK, NEW x \in Sales,
           ledger' = CreateTransaction(ledger, StoreOf[x], "REFUND", AmountOf[x], x, "COMPLETED")
    PROVE  \A y \in Sales : Credited(y)' <=> Credited(y)
<1>1. /\ DOMAIN ledger = 1 .. Len(ledger)
      /\ DOMAIN ledger' = 1 .. Len(ledger) + 1
      /\ \A i \in 1 .. Len(ledger) : ledger'[i] = ledger[i]
      /\ ledger'[Len(ledger) + 1] = [store |-> StoreOf[x], type |-> "REFUND",
                                     amount |-> AmountOf[x], ref |-> x,
                                     status |-> "COMPLETED"]
      /\ Len(ledger) \in Nat
  BY LedgerStep, SaleConstants DEF WalletTransactionType, TypeOK
<1> QED
  BY <1>1 DEF Credited, Credits

LEMMA SameLedgerSameCredits ==
    ASSUME ledger' = ledger
    PROVE  \A y \in Sales : Credited(y)' <=> Credited(y)
BY DEF Credited, Credits

\* The ledger after any step: nothing, one EARNING or one REFUND of a sale.
LEMMA RefundStep ==
    ASSUME TypeOK, RefundFollowsEarning,
           \/ ledger' = ledger
           \/ \E x \in Sales : ledger' = CreateTransaction(ledger, StoreOf[x], "EARNING",
                                                          AmountOf[x], x, "COMPLETED")
           \/ \E x \in Sales : /\ Credited(x)
                               /\ ledger' = CreateTransaction(ledger, StoreOf[x], "REFUND",
                                                              AmountOf[x], x, "COMPLETED")
    PROVE  RefundFollowsEarning'
<1>1. CASE ledger' = ledger
  BY <1>1 DEF RefundFollowsEarning, Credits
<1>2. ASSUME NEW x \in Sales, NEW type \in {"EARNING", "REFUND"},
             type = "REFUND" => Credited(x),
             ledger' = CreateTransaction(ledger, StoreOf[x], type, AmountOf[x], x, "COMPLETED")
      PROVE  RefundFollowsEarning'
  <2> DEFINE n == Len(ledger)
  <2>1. /\ n \in Nat
        /\ DOMAIN ledger = 1 .. n
        /\ DOMAIN ledger' = 1 .. n + 1
        /\ \A i \in 1 .. n : ledger'[i] = ledger[i]
        /\ ledger'[n + 1] = [store |-> StoreOf[x], type |-> type,
                             amount |-> AmountOf[x], ref |-> x, status |-> "COMPLETED"]
    BY <1>2, LedgerStep, SaleConstants DEF WalletTransactionType, TypeOK
  <2>2. ASSUME NEW j \in 1 .. n, ledger'[j].type = "REFUND"
        PROVE  \E i \in 1 .. j - 1 : /\ Credits(i, ledger[j].ref)'
                                      /\ ledger'[i].store = ledger'[j].store
                                      /\ ledger'[i].amount = ledger'[j].amount
                                      /\ ledger'[j].ref = ledger[j].ref
    <3>1. PICK i \in 1 .. j - 1 : /\ Credits(i, ledger[j].ref)
                                  /\ ledger[i].store = ledger[j].store
                                  /\ ledger[i].amount = ledger[j].amount
      BY <2>1, <2>2 DEF RefundFollowsEarning
    <3>2. ledger'[i] = ledger[i] /\ ledger'[j] = ledger[j]
      BY <2>1
    <3> QED
      BY <3>1, <3>2 DEF Credits
  <2>3. ASSUME ledger'[n + 1].type = "REFUND"
        PROVE  \E i \in 1 .. n : /\ Credits(i, x)'
                                 /\ ledger'[i].store = StoreOf[x]
                                 /\ ledger'[i].amount = AmountOf[x]
    <3>1. Credited(x)
      BY <1>2, <2>1, <2>3
    <3> QED
      BY <2>1, <3>1 DEF Credited, Credits
  <2> SUFFICES ASSUME NEW j \in DOMAIN ledger', ledger'[j].type = "REFUND"
               PROVE  \E i \in 1 .. j - 1 : /\ Credits(i, ledger[j].ref)'
                                             /\ ledger'[i].store = ledger'[j].store
                                             /\ ledger'[i].amount = ledger'[j].amount
    BY DEF RefundFollowsEarning
  <2>4. CASE j \in 1 .. n
    BY <2>2, <2>4 DEF Credits
  <2>5. CASE j = n + 1
    <3>1. j - 1 = n /\ ledger'[j].ref = x /\ ledger'[j].store = StoreOf[x]
          /\ ledger'[j].amount = AmountOf[x] /\ ledger'[j].type = "REFUND"
      BY <2>1, <2>5
    <3> QED
      BY <2>3, <2>5, <3>1 DEF Credits
  <2> QED
    BY <2>1, <2>4, <2>5
<1> QED
  BY <1>1, <1>2

\* What the commit of an order request does to the ledger and to credits.
LEMMA CommitOrderEffect ==
    ASSUME TypeOK, SnapshotsAreSound, NEW r \in Requests, CommitOrderStatus(r)
    PROVE  LET q == reqs[r] IN
           /\ q \in OrderRequest
           /\ OrderMayMove(q.row, q.status, q.reason)
           /\ q.status = "RETURNED" => Credited(q.id)
           /\ \A y \in Sales : Credited(y)' <=> (Credited(y) \/ (y = q.id /\ q.status = "DELIVERED"))
           /\ \/ ledger' = ledger
              \/ \E x \in Sales : ledger' = CreateTransaction(ledger, StoreOf[x], "EARNING",
                                                             AmountOf[x], x, "COMPLETED")
              \/ \E x \in Sales : /\ Credited(x)
                                  /\ ledger' = CreateTransaction(ledger, StoreOf[x], "REFUND",
                                                                 AmountOf[x], x, "COMPLETED")
<1> DEFINE q == reqs[r]
<1>1. q \in OrderRequest
  BY DEF TypeOK, CommitOrderStatus, Request, Idle, OrderRequest, BookingRequest, RescheduleRequest
<1>2. /\ q.id \in Orders /\ q.id \in Sales /\ q.status \in OrderStatus
      /\ q.row \in Order /\ q.op = "order"
  BY <1>1 DEF OrderRequest, Sales
<1>3. /\ q.store = StoreOf[q.id]
      /\ OrderMayMove(q.row, q.status, q.reason)
      /\ q.row.status \in {"DELIVERED", "RETURNED"} => Credited(q.id)
  BY <1>2 DEF SnapshotsAreSound
<1>4. q.status = "RETURNED" => q.row.status = "DELIVERED"
  BY <1>2, <1>3 DEF OrderMayMove, OrderStatusTransitions, Order, OrderStatus
<1>5. q.status = "RETURNED" => Credited(q.id)
  BY <1>3, <1>4
<1>6. CASE q.status = "DELIVERED"
  <2>1. ledger' = CreateTransaction(ledger, StoreOf[q.id], "EARNING", AmountOf[q.id], q.id, "COMPLETED")
    BY <1>3, <1>6 DEF CommitOrderStatus, WithOrderEntry, WithEntry
  <2> QED
    BY <1>1, <1>2, <1>3, <1>5, <1>6, <2>1, EarningCredits
<1>7. CASE q.status = "RETURNED"
  <2>1. ledger' = CreateTransaction(ledger, StoreOf[q.id], "REFUND", AmountOf[q.id], q.id, "COMPLETED")
    BY <1>3, <1>7 DEF CommitOrderStatus, WithOrderEntry, WithEntry
  <2> QED
    BY <1>1, <1>2, <1>3, <1>5, <1>7, <2>1, RefundKeepsCredits
<1>8. CASE q.status \notin {"DELIVERED", "RETURNED"}
  <2>1. ledger' = ledger
    BY <1>8 DEF CommitOrderStatus, WithOrderEntry
  <2> QED
    BY <1>1, <1>2, <1>3, <1>8, <2>1, SameLedgerSameCredits
<1> QED
  BY <1>6, <1>7, <1>8

\* The same of a booking request, which never refunds.
LEMMA CommitBookingEffect ==
    ASSUME TypeOK, SnapshotsAreSound, NEW r \in Requests, CommitBookingStatus(r)
    PROVE  LET q == reqs[r] IN
           /\ q \in BookingRequest
           /\ BookingMayMove(q.row, q.status, q.reason)
           /\ \A y \in Sales : Credited(y)' <=> (Credited(y) \/ (y = q.id /\ q.status = "COMPLETED"))
           /\ \/ ledger' = ledger
              \/ \E x \in Sales : ledger' = CreateTransaction(ledger, StoreOf[x], "EARNING",
                                                             AmountOf[x], x, "COMPLETED")
<1> DEFINE q == reqs[r]
<1>1. q \in BookingRequest
  BY DEF TypeOK, CommitBookingStatus, Request, Idle, OrderRequest, BookingRequest, RescheduleRequest
<1>2. q.id \in Bookings /\ q.id \in Sales /\ q.op = "booking"
  BY <1>1 DEF BookingRequest, Sales
<1>3. q.store = StoreOf[q.id] /\ BookingMayMove(q.row, q.status, q.reason)
  BY <1>2 DEF SnapshotsAreSound
<1>4. CASE q.status = "COMPLETED"
  <2>1. ledger' = CreateTransaction(ledger, StoreOf[q.id], "EARNING", AmountOf[q.id], q.id, "COMPLETED")
    BY <1>3, <1>4 DEF CommitBookingStatus, WithBookingEntry, WithEntry
  <2> QED
    BY <1>1, <1>2, <1>3, <1>4, <2>1, EarningCredits
<1>5. CASE q.status # "COMPLETED"
  <2>1. ledger' = ledger
    BY <1>5 DEF CommitBookingStatus, WithBookingEntry
  <2> QED
    BY <1>1, <1>2, <1>3, <1>5, <2>1, SameLedgerSameCredits
<1> QED
  BY <1>4, <1>5

\* No step takes back a credit or a reason.
LEMMA NothingIsTakenBack ==
    ASSUME TypeOK, SnapshotsAreSound, [Next]_vars
    PROVE  /\ \A x \in Sales : Credited(x) => Credited(x)'
           /\ \A o \in Orders : orders[o].cancellationReason # NoReason
                                 => orders'[o].cancellationReason # NoReason
           /\ \A b \in Bookings : bookings[b].cancellationReason # NoReason
                                   => bookings'[b].cancellationReason # NoReason
<1>1. ASSUME NEW r \in Requests, CommitOrderStatus(r)
      PROVE  /\ \A x \in Sales : Credited(x) => Credited(x)'
             /\ \A o \in Orders : orders[o].cancellationReason # NoReason
                                   => orders'[o].cancellationReason # NoReason
             /\ UNCHANGED bookings
  <2>1. \A x \in Sales : Credited(x) => Credited(x)'
    BY <1>1, CommitOrderEffect
  <2>2. reqs[r].id \in Orders
    BY <1>1, CommitOrderEffect DEF OrderRequest
  <2>3. \A o \in Orders : o # reqs[r].id => orders'[o] = orders[o]
    BY <1>1, <2>2 DEF TypeOK, CommitOrderStatus
  <2>4. orders'[reqs[r].id].cancellationReason
            = SavedReason(reqs[r], orders[reqs[r].id].cancellationReason)
    BY <1>1, <2>2 DEF TypeOK, CommitOrderStatus
  <2> QED
    BY <1>1, <2>1, <2>2, <2>3, <2>4 DEF SavedReason, Saved, CommitOrderStatus
<1>2. ASSUME NEW r \in Requests, CommitBookingStatus(r)
      PROVE  /\ \A x \in Sales : Credited(x) => Credited(x)'
             /\ \A b \in Bookings : bookings[b].cancellationReason # NoReason
                                     => bookings'[b].cancellationReason # NoReason
             /\ UNCHANGED orders
  <2>1. \A x \in Sales : Credited(x) => Credited(x)'
    BY <1>2, CommitBookingEffect
  <2>2. reqs[r].id \in Bookings
    BY <1>2, CommitBookingEffect DEF BookingRequest
  <2>3. \A b \in Bookings : b # reqs[r].id => bookings'[b] = bookings[b]
    BY <1>2, <2>2 DEF TypeOK, CommitBookingStatus
  <2>4. bookings'[reqs[r].id].cancellationReason
            = SavedReason(reqs[r], bookings[reqs[r].id].cancellationReason)
    BY <1>2, <2>2 DEF TypeOK, CommitBookingStatus
  <2> QED
    BY <1>2, <2>1, <2>2, <2>3, <2>4 DEF SavedReason, Saved, CommitBookingStatus
<1>3. ASSUME NEW r \in Requests, CommitReschedule(r)
      PROVE  /\ UNCHANGED <<orders, ledger>>
             /\ \A b \in Bookings : bookings'[b].cancellationReason = bookings[b].cancellationReason
  BY <1>3 DEF TypeOK, CommitReschedule, Booking
<1>4. CASE UNCHANGED <<orders, bookings, ledger>>
  BY <1>4, SameLedgerSameCredits
<1> QED
  BY <1>1, <1>2, <1>3, <1>4, SameLedgerSameCredits
     DEF Next, vars, SetOrderStatus, SetBookingStatus, RescheduleBooking, Fail

\* A request in flight in the next state was in flight before, or has just
\* loaded its row and passed its checks.
LEMMA SnapshotStep ==
    ASSUME TypeOK, SnapshotsAreSound, DeliveryIsPaid, [Next]_vars
    PROVE  SnapshotsAreSound'
<1> DEFINE Sound(q) ==
      /\ q.op = "order" =>
             /\ q.store = StoreOf[q.id]
             /\ OrderMayMove(q.row, q.status, q.reason)
             /\ q.row.status \in {"DELIVERED", "RETURNED"} => Credited(q.id)
             /\ q.row.cancellationReason # NoReason => orders[q.id].cancellationReason # NoReason
      /\ q.op = "booking" =>
             /\ q.store = StoreOf[q.id]
             /\ BookingMayMove(q.row, q.status, q.reason)
             /\ q.row.cancellationReason # NoReason => bookings[q.id].cancellationReason # NoReason
<1>1. ASSUME NEW r \in Requests, reqs'[r] = reqs[r]
      PROVE  Sound(reqs[r])'
  <2>1. Sound(reqs[r])
    BY DEF SnapshotsAreSound
  <2>2. reqs[r].op = "order" => reqs[r].id \in Orders /\ reqs[r].id \in Sales
    BY DEF TypeOK, Request, Idle, OrderRequest, BookingRequest, RescheduleRequest, Sales
  <2>3. reqs[r].op = "booking" => reqs[r].id \in Bookings
    BY DEF TypeOK, Request, Idle, OrderRequest, BookingRequest, RescheduleRequest
  <2> HIDE DEF Sound
  <2>4. reqs'[r] = reqs[r]
    BY <1>1
  <2> QED
    BY <2>1, <2>2, <2>3, <2>4, NothingIsTakenBack DEF Sound, OrderMayMove, BookingMayMove
<1>2. ASSUME NEW r \in Requests, reqs'[r] = Idle
      PROVE  Sound(reqs[r])'
  BY <1>2 DEF Idle
<1>3. ASSUME NEW r \in Requests, NEW s \in Stores, NEW o \in Orders,
             NEW status \in OrderStatus, NEW reason \in Reason,
             SetOrderStatus(r, s, o, status, reason)
      PROVE  Sound(reqs[r])'
  <2>1. reqs'[r] = [op |-> "order", store |-> s, id |-> o, status |-> status,
                    reason |-> reason, row |-> orders[o]]
    BY <1>3 DEF SetOrderStatus, TypeOK
  <2>2. /\ StoreOf[o] = s /\ OrderMayMove(orders[o], status, reason)
        /\ orders' = orders /\ ledger' = ledger
    BY <1>3 DEF SetOrderStatus
  <2>3. orders[o].status \in {"DELIVERED", "RETURNED"} => Credited(o)'
    BY <2>2, SameLedgerSameCredits DEF DeliveryIsPaid, Sales
  <2> QED
    BY <2>1, <2>2, <2>3 DEF OrderMayMove
<1>4. ASSUME NEW r \in Requests, NEW s \in Stores, NEW b \in Bookings,
             NEW status \in BookingStatus, NEW reason \in Reason,
             SetBookingStatus(r, s, b, status, reason)
      PROVE  Sound(reqs[r])'
  <2>1. reqs'[r] = [op |-> "booking", store |-> s, id |-> b, status |-> status,
                    reason |-> reason, row |-> bookings[b]]
    BY <1>4 DEF SetBookingStatus, TypeOK
  <2>2. StoreOf[b] = s /\ BookingMayMove(bookings[b], status, reason) /\ bookings' = bookings
    BY <1>4 DEF SetBookingStatus
  <2> QED
    BY <2>1, <2>2 DEF BookingMayMove
<1>5. ASSUME NEW r \in Requests, NEW s \in Stores, NEW b \in Bookings, NEW slot \in Slots,
             RescheduleBooking(r, s, b, slot)
      PROVE  Sound(reqs[r])'
  BY <1>5 DEF RescheduleBooking, TypeOK
<1>6. SUFFICES ASSUME NEW p \in Requests
               PROVE  Sound(reqs[p])'
  BY DEF SnapshotsAreSound
<1>7. \/ reqs'[p] = reqs[p]
      \/ reqs'[p] = Idle
      \/ \E s \in Stores, o \in Orders, status \in OrderStatus, reason \in Reason :
            SetOrderStatus(p, s, o, status, reason)
      \/ \E s \in Stores, b \in Bookings, status \in BookingStatus, reason \in Reason :
            SetBookingStatus(p, s, b, status, reason)
      \/ \E s \in Stores, b \in Bookings, slot \in Slots : RescheduleBooking(p, s, b, slot)
  <2>1. \A r \in Requests : \A e : reqs' = [reqs EXCEPT ![r] = e] =>
            /\ p # r => reqs'[p] = reqs[p]
            /\ p = r => reqs'[p] = e
    BY DEF TypeOK
  <2>2. CASE UNCHANGED vars
    BY <2>2 DEF vars
  <2>3. ASSUME NEW r \in Requests,
               CommitOrderStatus(r) \/ CommitBookingStatus(r) \/ CommitReschedule(r) \/ Fail(r)
        PROVE  reqs'[p] = reqs[p] \/ reqs'[p] = Idle
    <3>1. reqs' = [reqs EXCEPT ![r] = Idle]
      BY <2>3 DEF CommitOrderStatus, CommitBookingStatus, CommitReschedule, Fail
    <3> QED
      BY <2>1, <3>1
  <2>4. ASSUME NEW r \in Requests, NEW s \in Stores, NEW o \in Orders,
               NEW status \in OrderStatus, NEW reason \in Reason,
               SetOrderStatus(r, s, o, status, reason), p # r
        PROVE  reqs'[p] = reqs[p]
    BY <2>1, <2>4 DEF SetOrderStatus
  <2>5. ASSUME NEW r \in Requests, NEW s \in Stores, NEW b \in Bookings,
               NEW status \in BookingStatus, NEW reason \in Reason,
               SetBookingStatus(r, s, b, status, reason), p # r
        PROVE  reqs'[p] = reqs[p]
    BY <2>1, <2>5 DEF SetBookingStatus
  <2>6. ASSUME NEW r \in Requests, NEW s \in Stores, NEW b \in Bookings, NEW slot \in Slots,
               RescheduleBooking(r, s, b, slot), p # r
        PROVE  reqs'[p] = reqs[p]
    BY <2>1, <2>6 DEF RescheduleBooking
  <2> QED
    BY <2>2, <2>3, <2>4, <2>5, <2>6 DEF Next
<1> HIDE DEF Sound
<1> QED
  BY <1>1, <1>2, <1>3, <1>4, <1>5, <1>7

\* The rows that the commit of an order request leaves: the target has the
\* saved columns, every other order is as it was.
LEMMA OrderRowStep ==
    ASSUME TypeOK, SnapshotsAreSound, NEW r \in Requests, CommitOrderStatus(r)
    PROVE  LET q == reqs[r] IN
           /\ \A o \in Orders : o # q.id => orders'[o] = orders[o]
           /\ orders'[q.id].status \in {q.status, orders[q.id].status}
           /\ orders'[q.id].deliveredAt = (q.status = "DELIVERED" \/ orders[q.id].deliveredAt)
           /\ q.reason # NoReason => orders'[q.id].cancellationReason # NoReason
           /\ q.reason = NoReason =>
                  orders'[q.id].cancellationReason = orders[q.id].cancellationReason
           /\ bookings' = bookings
<1>1. reqs[r].id \in Orders
  BY CommitOrderEffect DEF OrderRequest
<1>2. orders'[reqs[r].id] =
          [status             |-> Saved(reqs[r].status, reqs[r].row.status, orders[reqs[r].id].status),
           cancellationReason |-> SavedReason(reqs[r], orders[reqs[r].id].cancellationReason),
           deliveredAt        |-> reqs[r].status = "DELIVERED" \/ orders[reqs[r].id].deliveredAt]
  BY <1>1 DEF TypeOK, CommitOrderStatus
<1>3. \A o \in Orders : o # reqs[r].id => orders'[o] = orders[o]
  BY <1>1 DEF TypeOK, CommitOrderStatus
<1>4. reqs[r].row.cancellationReason # NoReason => orders[reqs[r].id].cancellationReason # NoReason
  BY DEF SnapshotsAreSound, CommitOrderStatus
<1> QED
  BY <1>2, <1>3, <1>4 DEF Saved, SavedReason, CommitOrderStatus

\* The same of a booking request.
LEMMA BookingRowStep ==
    ASSUME TypeOK, SnapshotsAreSound, NEW r \in Requests, CommitBookingStatus(r)
    PROVE  LET q == reqs[r] IN
           /\ \A b \in Bookings : b # q.id => bookings'[b] = bookings[b]
           /\ bookings'[q.id].status \in {q.status, bookings[q.id].status}
           /\ bookings'[q.id].completedAt = (q.status = "COMPLETED" \/ bookings[q.id].completedAt)
           /\ q.reason # NoReason => bookings'[q.id].cancellationReason # NoReason
           /\ q.reason = NoReason =>
                  bookings'[q.id].cancellationReason = bookings[q.id].cancellationReason
           /\ orders' = orders
<1>1. reqs[r].id \in Bookings
  BY CommitBookingEffect DEF BookingRequest
<1>2. bookings'[reqs[r].id] =
          [status             |-> Saved(reqs[r].status, reqs[r].row.status, bookings[reqs[r].id].status),
           cancellationReason |-> SavedReason(reqs[r], bookings[reqs[r].id].cancellationReason),
           completedAt        |-> reqs[r].status = "COMPLETED" \/ bookings[reqs[r].id].completedAt,
           scheduledAt        |-> bookings[reqs[r].id].scheduledAt]
  BY <1>1 DEF TypeOK, CommitBookingStatus
<1>3. \A b \in Bookings : b # reqs[r].id => bookings'[b] = bookings[b]
  BY <1>1 DEF TypeOK, CommitBookingStatus
<1>4. reqs[r].row.cancellationReason # NoReason => bookings[reqs[r].id].cancellationReason # NoReason
  BY DEF SnapshotsAreSound, CommitBookingStatus
<1> QED
  BY <1>2, <1>3, <1>4 DEF Saved, SavedReason, CommitBookingStatus

\* The parts of CommerceInv that speak of rows, step by step.
LEMMA RowsStep ==
    ASSUME CommerceInv, [Next]_vars
    PROVE  DeliveryIsPaid' /\ StampedWhenPaid' /\ CancellationIsExplained' /\ RefundFollowsEarning'
<1> USE DEF CommerceInv
<1>1. ASSUME NEW r \in Requests, CommitOrderStatus(r)
      PROVE  /\ DeliveryIsPaid' /\ StampedWhenPaid'
             /\ CancellationIsExplained' /\ RefundFollowsEarning'
  <2> DEFINE q == reqs[r]
  <2>1. /\ q.id \in Orders /\ Orders \cap Bookings = {}
        /\ Orders \subseteq Sales /\ Bookings \subseteq Sales
    BY <1>1, CommitOrderEffect, CommerceAssumption DEF OrderRequest, Sales
  <2>2. \A y \in Sales : Credited(y)' <=> (Credited(y) \/ (y = q.id /\ q.status = "DELIVERED"))
    BY <1>1, CommitOrderEffect
  <2>3. /\ q.status = "RETURNED" => Credited(q.id)
        /\ q.status \in {"CANCELLED", "RETURNED"} => q.reason # NoReason
    BY <1>1, CommitOrderEffect DEF OrderMayMove
  <2>4. /\ \A o \in Orders : o # q.id => orders'[o] = orders[o]
        /\ orders'[q.id].status \in {q.status, orders[q.id].status}
        /\ orders'[q.id].deliveredAt = (q.status = "DELIVERED" \/ orders[q.id].deliveredAt)
        /\ q.reason # NoReason => orders'[q.id].cancellationReason # NoReason
        /\ q.reason = NoReason =>
               orders'[q.id].cancellationReason = orders[q.id].cancellationReason
        /\ bookings' = bookings
    BY <1>1, OrderRowStep
  <2>5. DeliveryIsPaid'
    BY <2>1, <2>2, <2>3, <2>4 DEF DeliveryIsPaid
  <2>6. StampedWhenPaid'
    BY <2>1, <2>2, <2>4 DEF StampedWhenPaid
  <2>7. CancellationIsExplained'
    BY <2>1, <2>3, <2>4 DEF CancellationIsExplained
  <2>8. RefundFollowsEarning'
    BY <1>1, CommitOrderEffect, RefundStep
  <2> QED
    BY <2>5, <2>6, <2>7, <2>8
<1>2. ASSUME NEW r \in Requests, CommitBookingStatus(r)
      PROVE  /\ DeliveryIsPaid' /\ StampedWhenPaid'
             /\ CancellationIsExplained' /\ RefundFollowsEarning'
  <2> DEFINE q == reqs[r]
  <2>1. /\ q.id \in Bookings /\ Orders \cap Bookings = {}
        /\ Orders \subseteq Sales /\ Bookings \subseteq Sales
    BY <1>2, CommitBookingEffect, CommerceAssumption DEF BookingRequest, Sales
  <2>2. \A y \in Sales : Credited(y)' <=> (Credited(y) \/ (y = q.id /\ q.status = "COMPLETED"))
    BY <1>2, CommitBookingEffect
  <2>3. q.status = "CANCELLED" => q.reason # NoReason
    BY <1>2, CommitBookingEffect DEF BookingMayMove
  <2>4. /\ \A b \in Bookings : b # q.id => bookings'[b] = bookings[b]
        /\ bookings'[q.id].status \in {q.status, bookings[q.id].status}
        /\ bookings'[q.id].completedAt = (q.status = "COMPLETED" \/ bookings[q.id].completedAt)
        /\ q.reason # NoReason => bookings'[q.id].cancellationReason # NoReason
        /\ q.reason = NoReason =>
               bookings'[q.id].cancellationReason = bookings[q.id].cancellationReason
        /\ orders' = orders
    BY <1>2, BookingRowStep
  <2>5. DeliveryIsPaid'
    BY <2>1, <2>2, <2>4 DEF DeliveryIsPaid
  <2>6. StampedWhenPaid'
    BY <2>1, <2>2, <2>4 DEF StampedWhenPaid
  <2>7. CancellationIsExplained'
    BY <2>1, <2>3, <2>4 DEF CancellationIsExplained
  <2>8. RefundFollowsEarning'
    BY <1>2, CommitBookingEffect, RefundStep
  <2> QED
    BY <2>5, <2>6, <2>7, <2>8
<1>3. ASSUME /\ orders' = orders /\ ledger' = ledger
             /\ \A b \in Bookings : /\ bookings'[b].status = bookings[b].status
                                    /\ bookings'[b].completedAt = bookings[b].completedAt
                                    /\ bookings'[b].cancellationReason
                                           = bookings[b].cancellationReason
      PROVE  /\ DeliveryIsPaid' /\ StampedWhenPaid'
             /\ CancellationIsExplained' /\ RefundFollowsEarning'
  <2>1. \A y \in Sales : Credited(y)' <=> Credited(y)
    BY <1>3, SameLedgerSameCredits
  <2>2. RefundFollowsEarning'
    BY <1>3, RefundStep
  <2> QED
    BY <1>3, <2>1, <2>2 DEF DeliveryIsPaid, StampedWhenPaid, CancellationIsExplained, Sales
<1>4. ASSUME NEW r \in Requests, CommitReschedule(r)
      PROVE  /\ orders' = orders /\ ledger' = ledger
             /\ \A b \in Bookings : /\ bookings'[b].status = bookings[b].status
                                    /\ bookings'[b].completedAt = bookings[b].completedAt
                                    /\ bookings'[b].cancellationReason
                                           = bookings[b].cancellationReason
  BY <1>4 DEF TypeOK, CommitReschedule, Booking
<1> QED
  BY <1>1, <1>2, <1>3, <1>4
     DEF Next, vars, SetOrderStatus, SetBookingStatus, RescheduleBooking, Fail

LEMMA CommerceInvStep == CommerceInv /\ [Next]_vars => CommerceInv'
BY TypeStep, SnapshotStep, RowsStep DEF CommerceInv

LEMMA CommerceInvInit == Init => CommerceInv
<1> SUFFICES ASSUME Init PROVE CommerceInv
  OBVIOUS
<1>1. TypeOK
  BY TypeInit
<1>2. \A o \in Orders : orders[o] = [status |-> "NEW", cancellationReason |-> NoReason,
                                     deliveredAt |-> FALSE]
  BY DEF Init
<1>3. \A b \in Bookings : /\ bookings[b].status = "UPCOMING"
                          /\ bookings[b].completedAt = FALSE
                          /\ bookings[b].cancellationReason = NoReason
  BY DEF Init
<1>4. DOMAIN ledger = {} /\ \A r \in Requests : reqs[r] = Idle
  BY DEF Init
<1> QED
  BY <1>1, <1>2, <1>3, <1>4
     DEF CommerceInv, SnapshotsAreSound, DeliveryIsPaid, StampedWhenPaid,
         CancellationIsExplained, RefundFollowsEarning, Credited, Credits, Idle

\* However many requests run at once, and whatever they hold of rows that
\* have moved on, the inductive invariant holds in every reachable state.
THEOREM CommerceCorrect == Spec => []CommerceInv
BY CommerceInvInit, CommerceInvStep, PTL DEF Spec

\* A sale shown delivered, returned or completed has its full amount recorded
\* for its store: the promise of the transactions of setOrderStatus and
\* setBookingStatus, for any number of concurrent requests.
THEOREM DeliveryIsAlwaysPaid == Spec => []DeliveryIsPaid
<1>1. CommerceInv => DeliveryIsPaid
  BY DEF CommerceInv
<1> QED
  BY <1>1, CommerceCorrect, PTL

\* deliveredAt and completedAt are set exactly for the sales that were paid.
THEOREM PaidIsAlwaysStamped == Spec => []StampedWhenPaid
<1>1. CommerceInv => StampedWhenPaid
  BY DEF CommerceInv
<1> QED
  BY <1>1, CommerceCorrect, PTL

\* A cancelled or returned sale always carries a reason.
THEOREM CancellationIsAlwaysExplained == Spec => []CancellationIsExplained
<1>1. CommerceInv => CancellationIsExplained
  BY DEF CommerceInv
<1> QED
  BY <1>1, CommerceCorrect, PTL

\* A refund in the ledger is always preceded by the earning it reverses.
THEOREM RefundAlwaysFollowsEarning == Spec => []RefundFollowsEarning
<1>1. CommerceInv => RefundFollowsEarning
  BY DEF CommerceInv
<1> QED
  BY <1>1, CommerceCorrect, PTL

----------------------------------------------------------------------------
(* Payout accounts under overlapping requests *)

PurseRefs == PurseSales \cup PurseAccounts

\* A request to add a payout account that found none will make it the default;
\* with it, the default survives two devices that add a first account at once.
PurseInv ==
    /\ Purse!TypeOK
    /\ Purse!OneDefaultPerStore
    /\ \A r \in PurseRequests :
          /\ purseReqs[r].op = "account"
          /\ Purse!AccountsOf(purseReqs[r].store) = {}
          => purseReqs[r].isDefault

\* The rows of a request by what it is doing.
LEMMA PurseRequestFields ==
    ASSUME Purse!TypeOK, NEW r \in PurseRequests
    PROVE  /\ purseReqs[r] \in Purse!Request
           /\ purseReqs[r].op = "account" =>
                 purseReqs[r].store \in Stores /\ purseReqs[r].isDefault \in BOOLEAN
           /\ purseReqs[r].op \in {"sum", "create"} =>
                 /\ purseReqs[r] \in Purse!WithdrawalRequest
                 /\ purseReqs[r].store \in Stores /\ purseReqs[r].amount \in Amounts
                 /\ purseReqs[r].amount \in Nat /\ purseReqs[r].account \in PurseAccounts
<1>1. purseReqs[r] \in Purse!Request
  BY DEF Purse!TypeOK
<1>2. purseReqs[r].op = "account" => purseReqs[r] \in Purse!AccountRequest
  BY <1>1 DEF Purse!Request, Purse!Idle, Purse!AccountRequest, Purse!WithdrawalRequest
<1>3. purseReqs[r].op \in {"sum", "create"} => purseReqs[r] \in Purse!WithdrawalRequest
  BY <1>1 DEF Purse!Request, Purse!Idle, Purse!AccountRequest, Purse!WithdrawalRequest
<1> QED
  BY <1>1, <1>2, <1>3, AmountsAssumption DEF Purse!AccountRequest, Purse!WithdrawalRequest

LEMMA PurseTypeStep == Purse!TypeOK /\ [Purse!Next]_(Purse!vars) => Purse!TypeOK'
<1> SUFFICES ASSUME Purse!TypeOK, [Purse!Next]_(Purse!vars) PROVE Purse!TypeOK'
  OBVIOUS
<1>1. ASSUME NEW r \in PurseRequests, NEW s \in Stores, NEW isDefault \in BOOLEAN,
             Purse!AddPayoutAccount(r, s, isDefault)
      PROVE  Purse!TypeOK'
  <2>1. [op |-> "account", store |-> s, isDefault |-> isDefault \/ Purse!AccountsOf(s) = {}]
            \in Purse!Request
    BY DEF Purse!Request, Purse!AccountRequest
  <2> QED
    BY <1>1, <2>1 DEF Purse!AddPayoutAccount, Purse!TypeOK
<1>2. ASSUME NEW r \in PurseRequests, NEW id \in PurseAccounts,
             Purse!CommitPayoutAccount(r, id)
      PROVE  Purse!TypeOK'
  <2>1. purseReqs[r].store \in Stores /\ purseReqs[r].isDefault \in BOOLEAN
    BY <1>2, PurseRequestFields DEF Purse!CommitPayoutAccount
  <2>2. Purse!DefaultsCleared(purseReqs[r].store) \subseteq Purse!PayoutAccount
    BY DEF Purse!DefaultsCleared, Purse!PayoutAccount, Purse!TypeOK
  <2>3. [id |-> id, store |-> purseReqs[r].store, isDefault |-> purseReqs[r].isDefault]
            \in Purse!PayoutAccount
    BY <2>1 DEF Purse!PayoutAccount
  <2>4. purseAccounts' \subseteq Purse!PayoutAccount
    BY <1>2, <2>2, <2>3 DEF Purse!CommitPayoutAccount, Purse!TypeOK
  <2>5. purseReqs' \in [PurseRequests -> Purse!Request]
    BY <1>2 DEF Purse!CommitPayoutAccount, Purse!TypeOK, Purse!Request
  <2> QED
    BY <1>2, <2>4, <2>5 DEF Purse!CommitPayoutAccount, Purse!TypeOK
<1>3. ASSUME NEW r \in PurseRequests, NEW s \in Stores, NEW amount \in Amounts,
             Purse!RequestWithdrawal(r, s, amount)
      PROVE  Purse!TypeOK'
  <2>1. PICK a \in Purse!AccountsOf(s) :
            purseReqs' = [purseReqs EXCEPT ![r] = [op |-> "sum", store |-> s,
                                                   amount |-> amount, account |-> a.id]]
    BY <1>3 DEF Purse!RequestWithdrawal
  <2>2. a.id \in PurseAccounts
    BY DEF Purse!AccountsOf, Purse!TypeOK, Purse!PayoutAccount
  <2>3. [op |-> "sum", store |-> s, amount |-> amount, account |-> a.id] \in Purse!Request
    BY <2>2 DEF Purse!Request, Purse!WithdrawalRequest
  <2> QED
    BY <1>3, <2>1, <2>3 DEF Purse!RequestWithdrawal, Purse!TypeOK
<1>4. ASSUME NEW r \in PurseRequests, Purse!CheckBalance(r)
      PROVE  Purse!TypeOK'
  <2>1. purseReqs[r] \in Purse!WithdrawalRequest
    BY <1>4, PurseRequestFields DEF Purse!CheckBalance
  <2>2. [purseReqs[r] EXCEPT !.op = "create"] \in Purse!Request
    BY <2>1 DEF Purse!Request, Purse!WithdrawalRequest
  <2> QED
    BY <1>4, <2>2 DEF Purse!CheckBalance, Purse!TypeOK
<1>5. ASSUME NEW r \in PurseRequests, Purse!CreateWithdrawal(r)
      PROVE  Purse!TypeOK'
  <2> DEFINE q == purseReqs[r]
  <2>1. q.store \in Stores /\ q.amount \in Nat /\ q.account \in PurseRefs
    BY <1>5, PurseRequestFields DEF Purse!CreateWithdrawal, PurseRefs
  <2> DEFINE row == [store |-> q.store, type |-> "PAYOUT", amount |-> q.amount,
                     ref |-> q.account, status |-> "PENDING"]
  <2>2. row \in Purse!WalletTransaction(Stores, PurseRefs)
    BY <2>1 DEF Purse!WalletTransaction, Purse!WalletTransactionType,
                Purse!WalletTransactionStatus
  <2>3. purseLedger' = Append(purseLedger, row)
    BY <1>5 DEF Purse!CreateWithdrawal, Purse!WithPayout, Purse!CreateTransaction
  <2> HIDE DEF row
  <2>4. purseLedger' \in Seq(Purse!WalletTransaction(Stores, PurseRefs))
    BY <2>2, <2>3 DEF Purse!TypeOK, PurseRefs
  <2>5. purseReqs' \in [PurseRequests -> Purse!Request]
    BY <1>5 DEF Purse!CreateWithdrawal, Purse!TypeOK, Purse!Request
  <2> QED
    BY <1>5, <2>4, <2>5 DEF Purse!CreateWithdrawal, Purse!TypeOK, PurseRefs
<1>6. ASSUME NEW r \in PurseRequests, Purse!Fail(r)
      PROVE  Purse!TypeOK'
  BY <1>6 DEF Purse!Fail, Purse!TypeOK, Purse!Request
<1>7. ASSUME NEW status \in {"COMPLETED", "FAILED"}, Purse!DecidePayout(status)
      PROVE  Purse!TypeOK'
  <2>1. PICK i \in DOMAIN purseLedger :
            purseLedger' = [purseLedger EXCEPT ![i].status = status]
    BY <1>7 DEF Purse!DecidePayout
  <2>2. purseLedger[i] \in Purse!WalletTransaction(Stores, PurseRefs)
    BY DEF Purse!TypeOK, PurseRefs
  <2>3. [purseLedger[i] EXCEPT !.status = status]
            \in Purse!WalletTransaction(Stores, PurseRefs)
    BY <2>2 DEF Purse!WalletTransaction, Purse!WalletTransactionStatus
  <2>4. purseLedger' \in Seq(Purse!WalletTransaction(Stores, PurseRefs))
    BY <2>1, <2>3 DEF Purse!TypeOK, PurseRefs
  <2> QED
    BY <1>7, <2>4 DEF Purse!DecidePayout, Purse!TypeOK, PurseRefs
<1>8. CASE UNCHANGED Purse!vars
  BY <1>8 DEF Purse!vars, Purse!TypeOK
<1> QED
  BY <1>1, <1>2, <1>3, <1>4, <1>5, <1>6, <1>7, <1>8 DEF Purse!Next

\* Committing a payout account: a default takes the flag from the others of its
\* store, a plain one joins a store that has a default already.
LEMMA AccountCommitted ==
    ASSUME PurseInv, NEW r \in PurseRequests, NEW id \in PurseAccounts,
           Purse!CommitPayoutAccount(r, id)
    PROVE  /\ \A s \in Stores : Purse!AccountsOf(s) # {} => Purse!AccountsOf(s)' # {}
           /\ Purse!OneDefaultPerStore'
<1> DEFINE q == purseReqs[r]
           new == [id |-> id, store |-> q.store, isDefault |-> q.isDefault]
<1>1. q.store \in Stores /\ q.isDefault \in BOOLEAN
  BY PurseRequestFields DEF PurseInv, Purse!CommitPayoutAccount
<1>2. \A a \in purseAccounts : a \in Purse!PayoutAccount
  BY DEF PurseInv, Purse!TypeOK
<1>3. CASE q.isDefault
  <2> DEFINE Cleared(a) == IF a.store = q.store THEN [a EXCEPT !.isDefault = FALSE] ELSE a
  <2>1. purseAccounts' = {Cleared(a) : a \in purseAccounts} \cup {new}
    BY <1>3 DEF Purse!CommitPayoutAccount, Purse!DefaultsCleared
  <2>2. \A a \in purseAccounts :
            /\ Cleared(a).store = a.store
            /\ a.store = q.store => Cleared(a).isDefault = FALSE
            /\ a.store # q.store => Cleared(a) = a
    BY <1>2 DEF Purse!PayoutAccount
  <2>3. new.store = q.store /\ new.isDefault = TRUE
    BY <1>3
  <2> HIDE DEF Cleared, new
  <2>4. \A s \in Stores : s # q.store => Purse!AccountsOf(s)' = Purse!AccountsOf(s)
    BY <2>1, <2>2, <2>3 DEF Purse!AccountsOf
  <2>5. \A s \in Stores : s = q.store =>
            /\ new \in Purse!AccountsOf(s)'
            /\ \A b \in Purse!AccountsOf(s)' : b.isDefault => b = new
    BY <2>1, <2>2, <2>3 DEF Purse!AccountsOf
  <2>6. ASSUME NEW s \in Stores, Purse!AccountsOf(s)' # {}
        PROVE  \E a \in Purse!AccountsOf(s)' :
                   /\ a.isDefault
                   /\ \A b \in Purse!AccountsOf(s)' : b.isDefault => b = a
    <3>1. CASE s = q.store
      BY <2>3, <2>5, <3>1
    <3>2. CASE s # q.store
      BY <2>4, <2>6, <3>2 DEF PurseInv, Purse!OneDefaultPerStore
    <3> QED
      BY <3>1, <3>2
  <2>7. \A s \in Stores : Purse!AccountsOf(s) # {} => Purse!AccountsOf(s)' # {}
    BY <2>4, <2>5
  <2> QED
    BY <2>6, <2>7 DEF Purse!OneDefaultPerStore
<1>4. CASE ~q.isDefault
  <2>1. purseAccounts' = purseAccounts \cup {new}
    BY <1>4 DEF Purse!CommitPayoutAccount
  <2>2. new.store = q.store /\ ~new.isDefault
    BY <1>4
  <2>3. Purse!AccountsOf(q.store) # {}
    BY <1>4 DEF PurseInv, Purse!CommitPayoutAccount
  <2> HIDE DEF new
  <2>4. \A s \in Stores :
            Purse!AccountsOf(s)' = Purse!AccountsOf(s) \cup (IF s = q.store THEN {new} ELSE {})
    BY <2>1, <2>2 DEF Purse!AccountsOf
  <2>5. \A s \in Stores : Purse!AccountsOf(s)' # {} => Purse!AccountsOf(s) # {}
    BY <2>3, <2>4
  <2>6. ASSUME NEW s \in Stores, Purse!AccountsOf(s)' # {}
        PROVE  \E a \in Purse!AccountsOf(s)' :
                   /\ a.isDefault
                   /\ \A b \in Purse!AccountsOf(s)' : b.isDefault => b = a
    <3>1. PICK a \in Purse!AccountsOf(s) :
              a.isDefault /\ \A b \in Purse!AccountsOf(s) : b.isDefault => b = a
      BY <2>5, <2>6 DEF PurseInv, Purse!OneDefaultPerStore
    <3> QED
      BY <2>2, <2>4, <3>1
  <2> QED
    BY <2>4, <2>6 DEF Purse!OneDefaultPerStore
<1> QED
  BY <1>3, <1>4

LEMMA PurseStep == PurseInv /\ [Purse!Next]_(Purse!vars) => PurseInv'
<1> SUFFICES ASSUME PurseInv, [Purse!Next]_(Purse!vars) PROVE PurseInv'
  OBVIOUS
<1> DEFINE FirstIsDefault ==
             \A r \in PurseRequests :
                 /\ purseReqs[r].op = "account"
                 /\ Purse!AccountsOf(purseReqs[r].store) = {}
                 => purseReqs[r].isDefault
<1>0. Purse!TypeOK /\ Purse!TypeOK'
  BY PurseTypeStep DEF PurseInv
<1>1. ASSUME NEW r \in PurseRequests, NEW s \in Stores, NEW isDefault \in BOOLEAN,
             Purse!AddPayoutAccount(r, s, isDefault)
      PROVE  Purse!OneDefaultPerStore' /\ FirstIsDefault'
  <2>1. \A t : Purse!AccountsOf(t)' = Purse!AccountsOf(t)
    BY <1>1 DEF Purse!AddPayoutAccount, Purse!AccountsOf
  <2>2. /\ \A v \in PurseRequests : v # r => purseReqs'[v] = purseReqs[v]
        /\ purseReqs'[r].store = s
        /\ purseReqs'[r].isDefault = (isDefault \/ Purse!AccountsOf(s) = {})
    BY <1>0, <1>1 DEF Purse!AddPayoutAccount, Purse!TypeOK
  <2>3. FirstIsDefault'
    <3> SUFFICES ASSUME NEW v \in PurseRequests, purseReqs'[v].op = "account",
                        NEW t, t = purseReqs'[v].store, Purse!AccountsOf(t)' = {}
                 PROVE  purseReqs'[v].isDefault
      BY DEF Purse!AccountsOf
    <3>1. CASE v = r
      BY <2>1, <2>2, <3>1
    <3>2. CASE v # r
      BY <2>1, <2>2, <3>2 DEF PurseInv
    <3> QED
      BY <3>1, <3>2
  <2> QED
    BY <2>1, <2>3 DEF PurseInv, Purse!OneDefaultPerStore
<1>2. ASSUME NEW r \in PurseRequests, NEW id \in PurseAccounts,
             Purse!CommitPayoutAccount(r, id)
      PROVE  Purse!OneDefaultPerStore' /\ FirstIsDefault'
  <2>1. \A v \in PurseRequests : purseReqs'[v].op = "account" =>
            purseReqs'[v] = purseReqs[v] /\ purseReqs[v].store \in Stores
    BY <1>0, <1>2, PurseRequestFields
       DEF Purse!CommitPayoutAccount, Purse!Idle, Purse!TypeOK
  <2>2. FirstIsDefault'
    <3> SUFFICES ASSUME NEW v \in PurseRequests, purseReqs'[v].op = "account",
                        Purse!AccountsOf(purseReqs[v].store)' = {}
                 PROVE  purseReqs[v].isDefault
      BY <2>1 DEF Purse!AccountsOf
    <3> QED
      BY <1>2, <2>1, AccountCommitted DEF PurseInv
  <2> QED
    BY <1>2, <2>2, AccountCommitted
<1>3. ASSUME NEW r \in PurseRequests,
             \/ \E s \in Stores, amount \in Amounts : Purse!RequestWithdrawal(r, s, amount)
             \/ Purse!CheckBalance(r)
             \/ Purse!CreateWithdrawal(r)
             \/ Purse!Fail(r)
      PROVE  Purse!OneDefaultPerStore' /\ FirstIsDefault'
  <2>1. purseAccounts' = purseAccounts
    BY <1>3 DEF Purse!RequestWithdrawal, Purse!CheckBalance, Purse!CreateWithdrawal, Purse!Fail
  <2>2. \A v \in PurseRequests : purseReqs'[v].op = "account" => purseReqs'[v] = purseReqs[v]
    <3>1. CASE \E s \in Stores, amount \in Amounts : Purse!RequestWithdrawal(r, s, amount)
      BY <1>0, <3>1 DEF Purse!RequestWithdrawal, Purse!TypeOK
    <3>2. CASE Purse!CheckBalance(r)
      <4>1. purseReqs[r] \in Purse!WithdrawalRequest
        BY <1>0, <3>2, PurseRequestFields DEF Purse!CheckBalance
      <4>2. [purseReqs[r] EXCEPT !.op = "create"].op = "create"
        BY <4>1 DEF Purse!WithdrawalRequest
      <4> QED
        BY <1>0, <3>2, <4>2 DEF Purse!CheckBalance, Purse!TypeOK
    <3>3. CASE Purse!CreateWithdrawal(r) \/ Purse!Fail(r)
      BY <1>0, <3>3 DEF Purse!CreateWithdrawal, Purse!Fail, Purse!TypeOK, Purse!Idle
    <3> QED
      BY <1>3, <3>1, <3>2, <3>3
  <2> QED
    BY <2>1, <2>2 DEF PurseInv, Purse!OneDefaultPerStore, Purse!AccountsOf
<1>4. ASSUME (\E status \in {"COMPLETED", "FAILED"} : Purse!DecidePayout(status))
                \/ UNCHANGED Purse!vars
      PROVE  Purse!OneDefaultPerStore' /\ FirstIsDefault'
  BY <1>4 DEF Purse!DecidePayout, Purse!vars, PurseInv, Purse!OneDefaultPerStore,
              Purse!AccountsOf
<1>5. Purse!OneDefaultPerStore' /\ FirstIsDefault'
  BY <1>1, <1>2, <1>3, <1>4 DEF Purse!Next
<1> QED
  BY <1>0, <1>5 DEF PurseInv

LEMMA PurseStart == Purse!Init => PurseInv
<1> SUFFICES ASSUME Purse!Init PROVE PurseInv
  OBVIOUS
<1>1. Purse!WalletTransaction(Stores, PurseRefs) = WalletTransaction(Stores, PurseRefs)
  BY DEF Purse!WalletTransaction, WalletTransaction, Purse!WalletTransactionType,
         WalletTransactionType, Purse!WalletTransactionStatus, WalletTransactionStatus
<1>2. Purse!TypeOK
  BY <1>1, PurseAssumption DEF Purse!Init, Purse!TypeOK, Purse!Request, PurseRefs
<1> QED
  BY <1>2 DEF PurseInv, Purse!Init, Purse!OneDefaultPerStore, Purse!AccountsOf, Purse!Idle

\* wallet.service.js alone, for any number of overlapping requests.
LEMMA PurseAlways == Purse!Spec => []PurseInv
BY PurseStart, PurseStep, PTL DEF Purse!Spec

LEMMA AllParts == AllSpec => Spec /\ Money!Spec /\ Purse!Spec
<1>1. AllInit => Init /\ Money!Init /\ Purse!Init
  BY DEF AllInit
<1>2. [AllNext]_allVars => /\ [Next]_vars /\ [Money!Next]_(Money!vars)
                           /\ [Purse!Next]_(Purse!vars)
  BY DEF AllNext, allVars, moneyVars, purseVars, vars,
         Money!vars, Money!commerceVars, Money!walletVars, Purse!vars
<1> QED
  BY <1>1, <1>2, PTL DEF AllSpec, Spec, Money!Spec, Purse!Spec

----------------------------------------------------------------------------
(* Sums over finite sets, as MapThenSumSet of the community modules computes *)
(* them.                                                                     *)

\* Induction over the naturals, for a set instead of a predicate.
LEMMA NatInductionSet ==
    ASSUME NEW A \in SUBSET Nat, 0 \in A, \A n \in A : n + 1 \in A
    PROVE  A = Nat
<1> SUFFICES ASSUME Nat \ A # {} PROVE FALSE
  OBVIOUS
<1>1. PICK m \in Nat \ A : \A y \in Nat \ A : ~(<<y, m>> \in OpToRel(<, Nat))
  BY NatLessThanWellFounded, WFMin
<1>2. m # 0 /\ m - 1 \in Nat /\ m - 1 < m /\ (m - 1) + 1 = m
  OBVIOUS
<1>3. <<m - 1, m>> \in OpToRel(<, Nat)
  BY <1>1, <1>2 DEF OpToRel
<1> QED
  BY <1>1, <1>2, <1>3

Pick(s) == CHOOSE x \in s : TRUE

\* h sums g over every subset of S, one picked element at a time.
Sums(g, S, h) ==
    \A s \in SUBSET S : h[s] = IF s = {} THEN 0 ELSE g[Pick(s)] + h[s \ {Pick(s)}]

Smaller(S, n) == {s \in SUBSET S : Cardinality(s) <= n}

LEMMA PickRemoved ==
    ASSUME NEW s, IsFiniteSet(s), s # {}
    PROVE  /\ Pick(s) \in s
           /\ IsFiniteSet(s \ {Pick(s)})
           /\ Cardinality(s) \in Nat /\ Cardinality(s \ {Pick(s)}) = Cardinality(s) - 1
<1>1. Pick(s) \in s
  BY DEF Pick
<1> QED
  BY <1>1, FS_RemoveElement, FS_CardinalityType

LEMMA SumExists ==
    ASSUME NEW S, IsFiniteSet(S), NEW g \in [S -> Nat]
    PROVE  \E h \in [SUBSET S -> Nat] : Sums(g, S, h)
<1> DEFINE Good(n, h) ==
             \A s \in Smaller(S, n) :
                 h[s] = IF s = {} THEN 0 ELSE g[Pick(s)] + h[s \ {Pick(s)}]
           A == {n \in Nat : \E h \in [Smaller(S, n) -> Nat] : Good(n, h)}
<1>0. \A s \in SUBSET S : IsFiniteSet(s) /\ Cardinality(s) \in Nat
                          /\ Cardinality(s) <= Cardinality(S) /\ Cardinality(S) \in Nat
  BY FS_Subset, FS_CardinalityType
<1>1. 0 \in A
  <2>1. Smaller(S, 0) = {{}}
    BY <1>0, FS_EmptySet DEF Smaller
  <2> DEFINE h == [s \in Smaller(S, 0) |-> 0]
  <2>2. h \in [Smaller(S, 0) -> Nat] /\ Good(0, h)
    BY <2>1
  <2> QED
    BY <2>2
<1>2. ASSUME NEW n \in A PROVE n + 1 \in A
  <2>1. PICK k \in [Smaller(S, n) -> Nat] : Good(n, k)
    BY <1>2
  <2> DEFINE h == [s \in Smaller(S, n + 1) |->
                       IF s = {} THEN 0 ELSE g[Pick(s)] + k[s \ {Pick(s)}]]
  <2>2. ASSUME NEW s \in Smaller(S, n + 1), s # {}
        PROVE  Pick(s) \in S /\ s \ {Pick(s)} \in Smaller(S, n)
    BY <1>0, <2>2, PickRemoved DEF Smaller
  <2>3. h \in [Smaller(S, n + 1) -> Nat]
    BY <2>2
  <2>4. \A s \in Smaller(S, n) : s \in Smaller(S, n + 1)
    BY <1>0 DEF Smaller
  <2>5. \A s \in Smaller(S, n) : h[s] = k[s]
    BY <2>1, <2>4
  <2>6. Good(n + 1, h)
    BY <2>2, <2>5
  <2> HIDE DEF h, Good
  <2>7. \E e \in [Smaller(S, n + 1) -> Nat] : Good(n + 1, e)
    BY <2>3, <2>6
  <2>8. n + 1 \in Nat
    OBVIOUS
  <2> QED
    BY <2>7, <2>8
<1>3. Cardinality(S) \in A
  <2> HIDE DEF A
  <2>1. A \in SUBSET Nat
    BY DEF A
  <2> QED
    BY <1>0, <1>1, <1>2, <2>1, NatInductionSet
<1>4. Smaller(S, Cardinality(S)) = SUBSET S
  BY <1>0 DEF Smaller
<1> QED
  BY <1>3, <1>4 DEF Sums

\* Sums of functions that agree agree.
LEMMA SumsAgree ==
    ASSUME NEW S, NEW R, NEW f, NEW g, NEW h, NEW k, Sums(f, S, h), Sums(g, R, k),
           NEW T \in SUBSET (S \cap R), IsFiniteSet(T), \A i \in T : f[i] = g[i]
    PROVE  h[T] = k[T]
<1> DEFINE A == {n \in Nat : \A s \in SUBSET T : Cardinality(s) = n => h[s] = k[s]}
<1>0. \A s \in SUBSET T : IsFiniteSet(s) /\ Cardinality(s) \in Nat
  BY FS_Subset, FS_CardinalityType
<1>1. 0 \in A
  BY <1>0, FS_EmptySet DEF Sums
<1>2. ASSUME NEW n \in A PROVE n + 1 \in A
  <2> SUFFICES ASSUME NEW s \in SUBSET T, Cardinality(s) = n + 1 PROVE h[s] = k[s]
    OBVIOUS
  <2>1. s # {}
    BY FS_EmptySet
  <2>2. Pick(s) \in T /\ s \ {Pick(s)} \in SUBSET T /\ Cardinality(s \ {Pick(s)}) = n
    BY <1>0, <2>1, PickRemoved
  <2>3. h[s \ {Pick(s)}] = k[s \ {Pick(s)}]
    BY <2>2
  <2> QED
    BY <2>1, <2>2, <2>3 DEF Sums
<1>3. Cardinality(T) \in A
  <2> HIDE DEF A
  <2>1. A \in SUBSET Nat
    BY DEF A
  <2> QED
    BY <1>0, <1>1, <1>2, <2>1, NatInductionSet
<1> QED
  BY <1>3

\* An element more adds its value, whichever is picked first.
Additive(g, S, h) == \A U \in SUBSET S : \A x \in U : h[U] = g[x] + h[U \ {x}]

LEMMA SumAdds ==
    ASSUME NEW S, IsFiniteSet(S), NEW g \in [S -> Nat], NEW h \in [SUBSET S -> Nat],
           Sums(g, S, h)
    PROVE  Additive(g, S, h)
<1> DEFINE A == {n \in Nat : \A t \in SUBSET S :
                     Cardinality(t) = n => \A y \in S \ t : h[t \cup {y}] = g[y] + h[t]}
<1>0. \A s \in SUBSET S : IsFiniteSet(s) /\ Cardinality(s) \in Nat
  BY FS_Subset, FS_CardinalityType
<1>1. 0 \in A
  <2> SUFFICES ASSUME NEW y \in S PROVE h[{y}] = g[y] + h[{}]
    BY <1>0, FS_EmptySet
  <2>1. Pick({y}) = y /\ {y} \ {y} = {} /\ {y} # {}
    BY DEF Pick
  <2> QED
    BY <2>1 DEF Sums
<1>2. ASSUME NEW n \in A PROVE n + 1 \in A
  <2> SUFFICES ASSUME NEW t \in SUBSET S, Cardinality(t) = n + 1, NEW y \in S \ t
               PROVE  h[t \cup {y}] = g[y] + h[t]
    OBVIOUS
  <2> DEFINE u == t \cup {y}
             p == Pick(u)
  <2>1. /\ u \in SUBSET S /\ u # {} /\ p \in u
        /\ h[u] = g[p] + h[u \ {p}]
    BY PickRemoved, <1>0 DEF Sums
  <2>2. CASE p = y
    <3>1. u \ {p} = t
      BY <2>2
    <3> HIDE DEF u, p
    <3> QED
      BY <2>1, <2>2, <3>1 DEF u
  <2>3. CASE p # y
    <3> DEFINE v == t \ {p}
    <3>0. p \in t
      <4> HIDE DEF p
      <4> QED
        BY <2>1, <2>3
    <3>1. /\ v \in SUBSET S /\ p \in S \ v /\ y \in S \ v
          /\ u \ {p} = v \cup {y} /\ t = v \cup {p}
      <4> HIDE DEF p
      <4> QED
        BY <2>3, <3>0
    <3>2. Cardinality(v) = n
      <4>1. Cardinality(v) = Cardinality(t) - 1
        <5> HIDE DEF p
        <5> QED
          BY <1>0, <3>0, FS_RemoveElement
      <4> QED
        BY <4>1
    <3>3. h[v \cup {y}] = g[y] + h[v] /\ h[v \cup {p}] = g[p] + h[v]
      BY <3>1, <3>2
    <3>4. h[v] \in Nat /\ g[p] \in Nat /\ g[y] \in Nat
      BY <3>1
    <3> HIDE DEF u, v, p
    <3>5. h[u \ {p}] = g[y] + h[v] /\ h[t] = g[p] + h[v]
      BY <3>1, <3>3
    <3>6. h[u] = g[y] + h[t]
      BY <2>1, <3>4, <3>5
    <3> QED
      BY <3>6 DEF u
  <2> QED
    BY <2>2, <2>3 DEF Additive
<1> SUFFICES ASSUME NEW U \in SUBSET S, NEW x \in U PROVE h[U] = g[x] + h[U \ {x}]
  BY DEF Additive
<1> DEFINE T == U \ {x}
<1>3. T \in SUBSET S /\ x \in S \ T /\ T \cup {x} = U
  OBVIOUS
<1>4. Cardinality(T) \in A
  <2> HIDE DEF A, T
  <2>1. A \in SUBSET Nat
    BY DEF A
  <2> QED
    BY <1>0, <1>1, <1>2, <1>3, <2>1, NatInductionSet
<1>5. h[T \cup {x}] = g[x] + h[T]
  <2> HIDE DEF T
  <2> QED
    BY <1>3, <1>4
<1> QED
  BY <1>3, <1>5

----------------------------------------------------------------------------
(* Sums over the ledger *)

RowSum(L, T) == MapThenSumSet(LAMBDA i : L[i].amount, T)

LEMMA RowSumIs ==
    ASSUME NEW L, NEW T, IsFiniteSet(T), \A i \in T : L[i].amount \in Nat
    PROVE  \E h \in [SUBSET T -> Nat] :
               Sums([i \in T |-> L[i].amount], T, h) /\ RowSum(L, T) = h[T]
<1> DEFINE g == [i \in T |-> L[i].amount]
           Eqn(h) == h = [s \in SUBSET T |->
                            IF s = {} THEN 0
                            ELSE L[CHOOSE x \in s : TRUE].amount + h[s \ {CHOOSE x \in s : TRUE}]]
           iter == CHOOSE h : Eqn(h)
<1>1. RowSum(L, T) = iter[T]
  BY DEF RowSum, MapThenSumSet, MapThenFoldSet
<1>2. PICK h \in [SUBSET T -> Nat] : Sums(g, T, h)
  <2>1. g \in [T -> Nat]
    OBVIOUS
  <2> HIDE DEF g
  <2> QED
    BY <2>1, SumExists
<1>3. \A s \in SUBSET T : s # {} => Pick(s) \in T
  BY DEF Pick
<1>4. Eqn(h)
  BY <1>2, <1>3 DEF Sums, Pick
<1>5. Eqn(iter)
  BY <1>4
<1>6. Sums(g, T, iter)
  BY <1>3, <1>5 DEF Sums, Pick
<1>7. h = iter
  <2>1. \A s \in SUBSET T : h[s] = iter[s]
    BY <1>2, <1>6, FS_Subset, SumsAgree
  <2> QED
    BY <1>2, <1>5, <2>1
<1> QED
  BY <1>1, <1>2, <1>7

\* Sums are natural numbers, depend on the amounts alone, and grow by the
\* amount of a position that is added.
LEMMA RowSumType ==
    ASSUME NEW L, NEW T, IsFiniteSet(T), \A i \in T : L[i].amount \in Nat
    PROVE  RowSum(L, T) \in Nat
<1>1. PICK h \in [SUBSET T -> Nat] : RowSum(L, T) = h[T]
  BY RowSumIs
<1> QED
  BY <1>1

LEMMA RowSumSame ==
    ASSUME NEW L, NEW M, NEW T, IsFiniteSet(T), \A i \in T : L[i].amount \in Nat,
           \A i \in T : M[i].amount = L[i].amount
    PROVE  RowSum(M, T) = RowSum(L, T)
<1> DEFINE f == [i \in T |-> L[i].amount]
           g == [i \in T |-> M[i].amount]
<1>1. PICK h \in [SUBSET T -> Nat] : Sums(f, T, h) /\ RowSum(L, T) = h[T]
  BY RowSumIs
<1>2. PICK k \in [SUBSET T -> Nat] : Sums(g, T, k) /\ RowSum(M, T) = k[T]
  BY RowSumIs
<1>3. \A i \in T : f[i] = g[i]
  OBVIOUS
<1> HIDE DEF f, g
<1> QED
  BY <1>1, <1>2, <1>3, SumsAgree

LEMMA RowSumAdd ==
    ASSUME NEW L, NEW T, IsFiniteSet(T), NEW x, x \notin T,
           \A i \in T \cup {x} : L[i].amount \in Nat
    PROVE  RowSum(L, T \cup {x}) = RowSum(L, T) + L[x].amount
<1> DEFINE S == T \cup {x}
           f == [i \in S |-> L[i].amount]
           g == [i \in T |-> L[i].amount]
<1>0. IsFiniteSet(S)
  BY FS_AddElement
<1>1. PICK h \in [SUBSET S -> Nat] : Sums(f, S, h) /\ RowSum(L, S) = h[S]
  BY <1>0, RowSumIs
<1>2. PICK k \in [SUBSET T -> Nat] : Sums(g, T, k) /\ RowSum(L, T) = k[T]
  BY RowSumIs
<1>3. /\ f \in [S -> Nat] /\ f[x] = L[x].amount
      /\ \A i \in T : f[i] = g[i]
      /\ T \in SUBSET S /\ T \in SUBSET (S \cap T) /\ x \in S \ T /\ S = T \cup {x}
  OBVIOUS
<1> HIDE DEF f, g, S
<1>4. h[S] = f[x] + h[T]
  <2>1. h \in [SUBSET S -> Nat]
    OBVIOUS
  <2>2. f \in [S -> Nat] /\ S \in SUBSET S /\ x \in S /\ Sums(f, S, h) /\ S \ {x} = T
    BY <1>1, <1>3
  <2>3. Additive(f, S, h)
    BY <1>0, <2>1, <2>2, SumAdds
  <2>4. h[S] = f[x] + h[S \ {x}]
    BY <2>2, <2>3 DEF Additive
  <2> QED
    BY <2>2, <2>4
<1>5. h[T] = k[T]
  BY <1>1, <1>2, <1>3, SumsAgree
<1>6. h[T] \in Nat /\ f[x] \in Nat
  BY <1>1, <1>3
<1>7. RowSum(L, S) = RowSum(L, T) + L[x].amount
  BY <1>1, <1>2, <1>3, <1>4, <1>5, <1>6
<1> QED
  BY <1>7 DEF S

\* The rows that SumByTypeAndStatus sums.
Matching(L, s, type, status) ==
    {i \in DOMAIN L : L[i].store = s /\ L[i].type = type /\ L[i].status = status}

LEMMA SumIsRowSum ==
    \A L, s, type, status :
        SumByTypeAndStatus(L, s, type, status) = RowSum(L, Matching(L, s, type, status))
BY DEF SumByTypeAndStatus, RowSum, Matching

LEMMA SumType ==
    ASSUME NEW S, NEW R, NEW L \in Seq(WalletTransaction(S, R)), NEW s, NEW type, NEW status
    PROVE  SumByTypeAndStatus(L, s, type, status) \in Nat
<1> DEFINE T == Matching(L, s, type, status)
<1>1. /\ DOMAIN L = 1 .. Len(L) /\ Len(L) \in Nat
      /\ \A i \in DOMAIN L : L[i] \in WalletTransaction(S, R)
  OBVIOUS
<1>2. T \subseteq DOMAIN L /\ \A i \in T : L[i].amount \in Nat
  BY <1>1 DEF Matching, WalletTransaction
<1>3. IsFiniteSet(T)
  <2>1. IsFiniteSet(DOMAIN L)
    BY <1>1, FS_Interval
  <2> QED
    BY <1>2, <2>1, FS_Subset
<1> HIDE DEF T
<1>4. RowSum(L, T) \in Nat
  BY <1>2, <1>3, RowSumType
<1> QED
  BY <1>4, SumIsRowSum DEF T

\* A ledger that CreateTransaction extends: the new row counts where it matches.
LEMMA SumAppended ==
    ASSUME NEW S, NEW R, NEW L \in Seq(WalletTransaction(S, R)),
           NEW row \in WalletTransaction(S, R), NEW s, NEW type, NEW status
    PROVE  /\ SumByTypeAndStatus(L, s, type, status) \in Nat
           /\ SumByTypeAndStatus(Append(L, row), s, type, status) =
                 SumByTypeAndStatus(L, s, type, status)
                     + (IF row.store = s /\ row.type = type /\ row.status = status
                        THEN row.amount ELSE 0)
<1> DEFINE M == Append(L, row)
           n == Len(L) + 1
           T == Matching(L, s, type, status)
           U == Matching(M, s, type, status)
<1>1. /\ DOMAIN L = 1 .. Len(L) /\ Len(L) \in Nat /\ n \notin DOMAIN L
      /\ DOMAIN M = DOMAIN L \cup {n} /\ M[n] = row
      /\ \A i \in DOMAIN L : M[i] = L[i] /\ L[i].amount \in Nat
      /\ row.amount \in Nat
  <2>1. /\ DOMAIN L = 1 .. Len(L) /\ Len(L) \in Nat
        /\ \A i \in DOMAIN L : L[i] \in WalletTransaction(S, R)
    OBVIOUS
  <2>2. M \in Seq(WalletTransaction(S, R)) /\ Len(M) = Len(L) + 1 /\ DOMAIN M = 1 .. Len(M)
    OBVIOUS
  <2>3. M[n] = row /\ \A i \in DOMAIN L : M[i] = L[i]
    OBVIOUS
  <2>4. \A r \in WalletTransaction(S, R) : r.amount \in Nat
    BY DEF WalletTransaction
  <2> HIDE DEF M
  <2> QED
    BY <2>1, <2>2, <2>3, <2>4
<1>2. IsFiniteSet(T) /\ T \subseteq DOMAIN L
  <2>1. IsFiniteSet(DOMAIN L)
    BY <1>1, FS_Interval
  <2>2. T \subseteq DOMAIN L
    BY DEF Matching
  <2> QED
    BY <2>1, <2>2, FS_Subset
<1> HIDE DEF M, n
<1>3. U = IF row.store = s /\ row.type = type /\ row.status = status THEN T \cup {n} ELSE T
  BY <1>1 DEF Matching
<1> HIDE DEF T, U
<1>4. RowSum(L, T) \in Nat /\ RowSum(M, T) = RowSum(L, T)
  BY <1>1, <1>2, RowSumType, RowSumSame
<1>5. RowSum(M, T \cup {n}) = RowSum(M, T) + row.amount
  BY <1>1, <1>2, RowSumAdd
<1>6. RowSum(M, U) = RowSum(L, T)
                       + (IF row.store = s /\ row.type = type /\ row.status = status
                          THEN row.amount ELSE 0)
  BY <1>1, <1>3, <1>4, <1>5
<1> QED
  BY <1>4, <1>6, SumIsRowSum DEF M, T, U

\* Giving row i the status to takes its amount from one sum to another.
Moves(L, i, to, M) ==
    \A s, type, status :
        SumByTypeAndStatus(M, s, type, status)
            + (IF L[i].store = s /\ L[i].type = type /\ L[i].status = status
               THEN L[i].amount ELSE 0)
          = SumByTypeAndStatus(L, s, type, status)
            + (IF L[i].store = s /\ L[i].type = type /\ to = status
               THEN L[i].amount ELSE 0)

LEMMA SumMoved ==
    ASSUME NEW S, NEW R, NEW L \in Seq(WalletTransaction(S, R)), NEW i \in DOMAIN L,
           NEW to \in WalletTransactionStatus, NEW M, M = [L EXCEPT ![i].status = to]
    PROVE  Moves(L, i, to, M)
<1> SUFFICES ASSUME NEW s, NEW type, NEW status
             PROVE  SumByTypeAndStatus(M, s, type, status)
                      + (IF L[i].store = s /\ L[i].type = type /\ L[i].status = status
                         THEN L[i].amount ELSE 0)
                    = SumByTypeAndStatus(L, s, type, status)
                      + (IF L[i].store = s /\ L[i].type = type /\ to = status
                         THEN L[i].amount ELSE 0)
  BY DEF Moves
<1> DEFINE T == Matching(L, s, type, status)
           U == Matching(M, s, type, status)
           C == T \ {i}
           was == L[i].store = s /\ L[i].type = type /\ L[i].status = status
           is  == L[i].store = s /\ L[i].type = type /\ to = status
<1>1. /\ DOMAIN L = 1 .. Len(L) /\ Len(L) \in Nat
      /\ \A j \in DOMAIN L : L[j] \in WalletTransaction(S, R)
  OBVIOUS
<1>2. /\ DOMAIN M = DOMAIN L
      /\ \A j \in DOMAIN L : /\ M[j].store = L[j].store /\ M[j].type = L[j].type
                             /\ M[j].amount = L[j].amount /\ L[j].amount \in Nat
                             /\ j # i => M[j].status = L[j].status
      /\ M[i].status = to
  BY <1>1 DEF WalletTransaction
<1>3. IsFiniteSet(T) /\ T \subseteq DOMAIN L /\ IsFiniteSet(C) /\ C \subseteq DOMAIN L /\ i \notin C
  BY <1>1, FS_Interval, FS_Subset DEF Matching
<1>4. /\ T = IF was THEN C \cup {i} ELSE C
      /\ U = IF is THEN C \cup {i} ELSE C
  BY <1>2 DEF Matching
<1>5. /\ \A j \in C \cup {i} : L[j].amount \in Nat /\ M[j].amount \in Nat
      /\ \A j \in C : M[j].amount = L[j].amount
      /\ M[i].amount = L[i].amount
  BY <1>2, <1>3
<1>6. /\ SumByTypeAndStatus(M, s, type, status) = RowSum(M, U)
      /\ SumByTypeAndStatus(L, s, type, status) = RowSum(L, T)
  BY SumIsRowSum
<1> HIDE DEF T, U, C, was, is
<1>7. /\ RowSum(L, C) \in Nat /\ RowSum(M, C) = RowSum(L, C)
      /\ RowSum(L, C \cup {i}) = RowSum(L, C) + L[i].amount
      /\ RowSum(M, C \cup {i}) = RowSum(M, C) + M[i].amount
  <2>1. RowSum(L, C) \in Nat /\ RowSum(M, C) = RowSum(L, C)
    BY <1>3, <1>5, RowSumType, RowSumSame
  <2>2. RowSum(L, C \cup {i}) = RowSum(L, C) + L[i].amount
    BY <1>3, <1>5, RowSumAdd
  <2>3. RowSum(M, C \cup {i}) = RowSum(M, C) + M[i].amount
    BY <1>3, <1>5, RowSumAdd
  <2> QED
    BY <2>1, <2>2, <2>3
<1>8. RowSum(M, U) + (IF was THEN L[i].amount ELSE 0)
          = RowSum(L, T) + (IF is THEN L[i].amount ELSE 0)
  BY <1>4, <1>5, <1>7
<1> QED
  BY <1>6, <1>8 DEF was, is

----------------------------------------------------------------------------
(* Sales and payouts on one ledger *)

MoneyRow == WalletTransaction(MoneyStores, Orders \cup Bookings \cup MoneyAccounts)

\* What the tables and the requests of the two services hold.
MoneyTypes ==
    /\ soldLedger \in Seq(MoneyRow)
    /\ soldOrders \in [Orders -> Money!Commerce!Order]
    /\ soldBookings \in [Bookings -> Money!Commerce!Booking]
    /\ commerceReqs \in [CommerceRequests -> Money!Commerce!Request]
    /\ payoutAccounts \subseteq Money!Purse!PayoutAccount
    /\ walletReqs \in [WalletRequests -> Money!Purse!Request]

\* PartnerMoney's services use the same rows and sums as WalletLedger.
LEMMA SameLedger ==
    /\ \A L, s, type, status :
          Money!Purse!SumByTypeAndStatus(L, s, type, status)
              = SumByTypeAndStatus(L, s, type, status)
    /\ \A L, store, type, amount, ref, status :
          /\ Money!Purse!CreateTransaction(L, store, type, amount, ref, status)
                 = CreateTransaction(L, store, type, amount, ref, status)
          /\ Money!Commerce!CreateTransaction(L, store, type, amount, ref, status)
                 = CreateTransaction(L, store, type, amount, ref, status)
    /\ \A L, type, ref : Money!Commerce!RowsFor(L, type, ref) = RowsFor(L, type, ref)
<1>1. \A L, s, type, status :
          Money!Purse!SumByTypeAndStatus(L, s, type, status)
              = SumByTypeAndStatus(L, s, type, status)
  BY DEF Money!Purse!SumByTypeAndStatus, SumByTypeAndStatus, Money!Purse!MapThenSumSet,
         MapThenSumSet, Money!Purse!MapThenFoldSet, MapThenFoldSet
<1> QED
  BY <1>1 DEF Money!Purse!CreateTransaction, Money!Commerce!CreateTransaction,
              CreateTransaction, Money!Commerce!RowsFor, RowsFor

\* The fields of a request by what it is doing.
LEMMA MoneyRequests ==
    ASSUME MoneyTypes
    PROVE  /\ \A c \in CommerceRequests :
                 /\ commerceReqs[c].op = "order" =>
                       commerceReqs[c] \in Money!Commerce!OrderRequest
                 /\ commerceReqs[c].op = "booking" =>
                       commerceReqs[c] \in Money!Commerce!BookingRequest
                 /\ commerceReqs[c].op = "reschedule" =>
                       commerceReqs[c] \in Money!Commerce!RescheduleRequest
           /\ \A w \in WalletRequests :
                 /\ walletReqs[w].op = "account" =>
                       walletReqs[w] \in Money!Purse!AccountRequest
                 /\ walletReqs[w].op \in {"sum", "create"} =>
                       walletReqs[w] \in Money!Purse!WithdrawalRequest
<1>1. ASSUME NEW c \in CommerceRequests
      PROVE  /\ commerceReqs[c].op = "order" =>
                   commerceReqs[c] \in Money!Commerce!OrderRequest
             /\ commerceReqs[c].op = "booking" =>
                   commerceReqs[c] \in Money!Commerce!BookingRequest
             /\ commerceReqs[c].op = "reschedule" =>
                   commerceReqs[c] \in Money!Commerce!RescheduleRequest
  <2>1. commerceReqs[c] \in Money!Commerce!Request
    BY DEF MoneyTypes
  <2> QED
    BY <2>1 DEF Money!Commerce!Request, Money!Commerce!Idle, Money!Commerce!OrderRequest,
                Money!Commerce!BookingRequest, Money!Commerce!RescheduleRequest
<1>2. ASSUME NEW w \in WalletRequests
      PROVE  /\ walletReqs[w].op = "account" =>
                   walletReqs[w] \in Money!Purse!AccountRequest
             /\ walletReqs[w].op \in {"sum", "create"} =>
                   walletReqs[w] \in Money!Purse!WithdrawalRequest
  <2>1. walletReqs[w] \in Money!Purse!Request
    BY DEF MoneyTypes
  <2> QED
    BY <2>1 DEF Money!Purse!Request, Money!Purse!Idle, Money!Purse!AccountRequest,
                Money!Purse!WithdrawalRequest
<1> QED
  BY <1>1, <1>2

\* commerce.service.js leaves the ledger alone or adds an EARNING or a REFUND.
SaleRow(row) ==
    row \in MoneyRow /\ row.type \in {"EARNING", "REFUND"} /\ row.status = "COMPLETED"

LEMMA SaleRowOf ==
    ASSUME NEW store \in MoneyStores, NEW x \in Orders \cup Bookings,
           NEW type \in {"EARNING", "REFUND"}
    PROVE  SaleRow([store |-> store, type |-> type, amount |-> AmountOf[x], ref |-> x,
                    status |-> "COMPLETED"])
BY CommerceAssumption DEF SaleRow, MoneyRow, WalletTransaction, WalletTransactionType,
                          WalletTransactionStatus

\* The commits of commerce.service.js keep the types.
LEMMA CommerceCommits ==
    ASSUME MoneyTypes, NEW c \in CommerceRequests
    PROVE  /\ Money!Commerce!CommitOrderStatus(c) =>
                 /\ soldOrders' \in [Orders -> Money!Commerce!Order]
                 /\ \/ soldLedger' = soldLedger
                    \/ \E row : SaleRow(row) /\ soldLedger' = Append(soldLedger, row)
           /\ Money!Commerce!CommitBookingStatus(c) =>
                 /\ soldBookings' \in [Bookings -> Money!Commerce!Booking]
                 /\ \/ soldLedger' = soldLedger
                    \/ \E row : SaleRow(row) /\ soldLedger' = Append(soldLedger, row)
           /\ Money!Commerce!CommitReschedule(c) =>
                 soldBookings' \in [Bookings -> Money!Commerce!Booking]
<1> DEFINE q == commerceReqs[c]
<1>1. ASSUME Money!Commerce!CommitOrderStatus(c)
      PROVE  /\ soldOrders' \in [Orders -> Money!Commerce!Order]
             /\ \/ soldLedger' = soldLedger
                \/ \E row : SaleRow(row) /\ soldLedger' = Append(soldLedger, row)
  <2>1. q \in Money!Commerce!OrderRequest
    BY <1>1, MoneyRequests DEF Money!Commerce!CommitOrderStatus
  <2>2. /\ q.id \in Orders /\ q.store \in MoneyStores
        /\ q.status \in Money!Commerce!OrderStatus /\ q.reason \in Money!Commerce!Reason
    BY <2>1 DEF Money!Commerce!OrderRequest
  <2>3. soldOrders[q.id] \in Money!Commerce!Order
    BY <2>2 DEF MoneyTypes
  <2>4. /\ Money!Commerce!SavedReason(q, soldOrders[q.id].cancellationReason)
               \in Money!Commerce!Reason
        /\ Money!Commerce!Saved(q.status, q.row.status, soldOrders[q.id].status)
               \in Money!Commerce!OrderStatus
        /\ (q.status = "DELIVERED" \/ soldOrders[q.id].deliveredAt) \in BOOLEAN
    BY <2>2, <2>3 DEF Money!Commerce!SavedReason, Money!Commerce!Saved, Money!Commerce!Order
  <2>5. soldOrders' \in [Orders -> Money!Commerce!Order]
    BY <1>1, <2>2, <2>4 DEF Money!Commerce!CommitOrderStatus, Money!Commerce!Order, MoneyTypes
  <2>6. \A type \in {"EARNING", "REFUND"} :
            Money!Commerce!WithEntry(q, type) =
                Append(soldLedger, [store |-> q.store, type |-> type, amount |-> AmountOf[q.id],
                                    ref |-> q.id, status |-> "COMPLETED"])
    BY DEF Money!Commerce!WithEntry, Money!Commerce!CreateTransaction
  <2>7. soldLedger' = Money!Commerce!WithOrderEntry(q)
    BY <1>1 DEF Money!Commerce!CommitOrderStatus
  <2>8. \/ soldLedger' = soldLedger
        \/ \E type \in {"EARNING", "REFUND"} : soldLedger' = Money!Commerce!WithEntry(q, type)
    BY <2>7 DEF Money!Commerce!WithOrderEntry
  <2> HIDE DEF q
  <2> QED
    BY <2>2, <2>5, <2>6, <2>8, SaleRowOf
<1>2. ASSUME Money!Commerce!CommitBookingStatus(c)
      PROVE  /\ soldBookings' \in [Bookings -> Money!Commerce!Booking]
             /\ \/ soldLedger' = soldLedger
                \/ \E row : SaleRow(row) /\ soldLedger' = Append(soldLedger, row)
  <2>1. q \in Money!Commerce!BookingRequest
    BY <1>2, MoneyRequests DEF Money!Commerce!CommitBookingStatus
  <2>2. /\ q.id \in Bookings /\ q.store \in MoneyStores
        /\ q.status \in Money!Commerce!BookingStatus /\ q.reason \in Money!Commerce!Reason
    BY <2>1 DEF Money!Commerce!BookingRequest
  <2>3. soldBookings[q.id] \in Money!Commerce!Booking
    BY <2>2 DEF MoneyTypes
  <2>4. /\ Money!Commerce!SavedReason(q, soldBookings[q.id].cancellationReason)
               \in Money!Commerce!Reason
        /\ Money!Commerce!Saved(q.status, q.row.status, soldBookings[q.id].status)
               \in Money!Commerce!BookingStatus
        /\ (q.status = "COMPLETED" \/ soldBookings[q.id].completedAt) \in BOOLEAN
        /\ soldBookings[q.id].scheduledAt \in MoneySlots
    BY <2>2, <2>3 DEF Money!Commerce!SavedReason, Money!Commerce!Saved, Money!Commerce!Booking
  <2>5. soldBookings' \in [Bookings -> Money!Commerce!Booking]
    BY <1>2, <2>2, <2>4
       DEF Money!Commerce!CommitBookingStatus, Money!Commerce!Booking, MoneyTypes
  <2>6. Money!Commerce!WithEntry(q, "EARNING") =
            Append(soldLedger, [store |-> q.store, type |-> "EARNING",
                                amount |-> AmountOf[q.id], ref |-> q.id,
                                status |-> "COMPLETED"])
    BY DEF Money!Commerce!WithEntry, Money!Commerce!CreateTransaction
  <2>7. \/ soldLedger' = soldLedger
        \/ soldLedger' = Money!Commerce!WithEntry(q, "EARNING")
    BY <1>2 DEF Money!Commerce!CommitBookingStatus, Money!Commerce!WithBookingEntry
  <2> HIDE DEF q
  <2> QED
    BY <2>2, <2>5, <2>6, <2>7, SaleRowOf
<1>3. ASSUME Money!Commerce!CommitReschedule(c)
      PROVE  soldBookings' \in [Bookings -> Money!Commerce!Booking]
  <2>1. q \in Money!Commerce!RescheduleRequest
    BY <1>3, MoneyRequests DEF Money!Commerce!CommitReschedule
  <2>2. q.id \in Bookings /\ q.scheduledAt \in MoneySlots
    BY <2>1 DEF Money!Commerce!RescheduleRequest
  <2> QED
    BY <1>3, <2>2 DEF Money!Commerce!CommitReschedule, Money!Commerce!Booking,
                      Money!Commerce!Saved, MoneyTypes
<1> QED
  BY <1>1, <1>2, <1>3

\* A step of commerce.service.js: the ledger grows by a row of a sale, or not.
LEMMA CommerceTypes ==
    ASSUME MoneyTypes, Money!CommerceStep
    PROVE  /\ MoneyTypes'
           /\ walletReqs' = walletReqs
           /\ \/ soldLedger' = soldLedger
              \/ \E row : SaleRow(row) /\ soldLedger' = Append(soldLedger, row)
<1>0. UNCHANGED <<payoutAccounts, walletReqs>>
  BY DEF Money!CommerceStep, Money!walletVars
<1> DEFINE Grown == \/ soldLedger' = soldLedger
                    \/ \E row : SaleRow(row) /\ soldLedger' = Append(soldLedger, row)
           Done(c) == commerceReqs' = [commerceReqs EXCEPT ![c] = Money!Commerce!Idle]
<1>1. ASSUME NEW c \in CommerceRequests
      PROVE  /\ Done(c) => commerceReqs' \in [CommerceRequests -> Money!Commerce!Request]
             /\ \A q \in Money!Commerce!Request :
                   commerceReqs' = [commerceReqs EXCEPT ![c] = q]
                   => commerceReqs' \in [CommerceRequests -> Money!Commerce!Request]
  BY DEF MoneyTypes, Money!Commerce!Request
<1>2. Grown => soldLedger' \in Seq(MoneyRow)
  <2>1. \A row \in MoneyRow : Append(soldLedger, row) \in Seq(MoneyRow)
    BY DEF MoneyTypes
  <2> QED
    BY <2>1 DEF MoneyTypes, SaleRow
<1>3. ASSUME NEW c \in CommerceRequests, NEW s \in MoneyStores, NEW o \in Orders,
             NEW status \in Money!Commerce!OrderStatus, NEW reason \in Money!Commerce!Reason,
             Money!Commerce!SetOrderStatus(c, s, o, status, reason)
      PROVE  MoneyTypes' /\ Grown
  <2>1. [op |-> "order", store |-> s, id |-> o, status |-> status, reason |-> reason,
         row |-> soldOrders[o]] \in Money!Commerce!Request
    BY DEF Money!Commerce!Request, Money!Commerce!OrderRequest, MoneyTypes
  <2>2. commerceReqs' \in [CommerceRequests -> Money!Commerce!Request]
    BY <1>1, <1>3, <2>1 DEF Money!Commerce!SetOrderStatus
  <2> QED
    BY <1>0, <1>3, <2>2 DEF Money!Commerce!SetOrderStatus, MoneyTypes
<1>4. ASSUME NEW c \in CommerceRequests, Money!Commerce!CommitOrderStatus(c)
      PROVE  MoneyTypes' /\ Grown
  <2>1. Done(c) /\ soldBookings' = soldBookings
    BY <1>4 DEF Money!Commerce!CommitOrderStatus
  <2>2. soldOrders' \in [Orders -> Money!Commerce!Order] /\ Grown
    BY <1>4, CommerceCommits
  <2> QED
    BY <1>0, <1>1, <1>2, <2>1, <2>2 DEF MoneyTypes
<1>5. ASSUME NEW c \in CommerceRequests, NEW s \in MoneyStores, NEW b \in Bookings,
             NEW status \in Money!Commerce!BookingStatus, NEW reason \in Money!Commerce!Reason,
             Money!Commerce!SetBookingStatus(c, s, b, status, reason)
      PROVE  MoneyTypes' /\ Grown
  <2>1. [op |-> "booking", store |-> s, id |-> b, status |-> status, reason |-> reason,
         row |-> soldBookings[b]] \in Money!Commerce!Request
    BY DEF Money!Commerce!Request, Money!Commerce!BookingRequest, MoneyTypes
  <2>2. commerceReqs' \in [CommerceRequests -> Money!Commerce!Request]
    BY <1>1, <1>5, <2>1 DEF Money!Commerce!SetBookingStatus
  <2> QED
    BY <1>0, <1>5, <2>2 DEF Money!Commerce!SetBookingStatus, MoneyTypes
<1>6. ASSUME NEW c \in CommerceRequests, Money!Commerce!CommitBookingStatus(c)
      PROVE  MoneyTypes' /\ Grown
  <2>1. Done(c) /\ soldOrders' = soldOrders
    BY <1>6 DEF Money!Commerce!CommitBookingStatus
  <2>2. soldBookings' \in [Bookings -> Money!Commerce!Booking] /\ Grown
    BY <1>6, CommerceCommits
  <2> QED
    BY <1>0, <1>1, <1>2, <2>1, <2>2 DEF MoneyTypes
<1>7. ASSUME NEW c \in CommerceRequests, NEW s \in MoneyStores, NEW b \in Bookings,
             NEW slot \in MoneySlots, Money!Commerce!RescheduleBooking(c, s, b, slot)
      PROVE  MoneyTypes' /\ Grown
  <2>1. [op |-> "reschedule", id |-> b, scheduledAt |-> slot, row |-> soldBookings[b]]
            \in Money!Commerce!Request
    BY DEF Money!Commerce!Request, Money!Commerce!RescheduleRequest, MoneyTypes
  <2>2. commerceReqs' \in [CommerceRequests -> Money!Commerce!Request]
    BY <1>1, <1>7, <2>1 DEF Money!Commerce!RescheduleBooking
  <2> QED
    BY <1>0, <1>7, <2>2 DEF Money!Commerce!RescheduleBooking, MoneyTypes
<1>8. ASSUME NEW c \in CommerceRequests, Money!Commerce!CommitReschedule(c)
      PROVE  MoneyTypes' /\ Grown
  <2>1. Done(c) /\ UNCHANGED <<soldOrders, soldLedger>>
    BY <1>8 DEF Money!Commerce!CommitReschedule
  <2>2. soldBookings' \in [Bookings -> Money!Commerce!Booking]
    BY <1>8, CommerceCommits
  <2> QED
    BY <1>0, <1>1, <2>1, <2>2 DEF MoneyTypes
<1>9. ASSUME NEW c \in CommerceRequests, Money!Commerce!Fail(c)
      PROVE  MoneyTypes' /\ Grown
  BY <1>0, <1>1, <1>9 DEF Money!Commerce!Fail, MoneyTypes
<1>10. Money!Commerce!Next
  BY DEF Money!CommerceStep
<1> HIDE DEF Grown
<1>11. MoneyTypes' /\ Grown
  BY <1>3, <1>4, <1>5, <1>6, <1>7, <1>8, <1>9, <1>10 DEF Money!Commerce!Next
<1> QED
  BY <1>0, <1>11 DEF Grown

\* The row of withdrawal q.
PayoutRow(q) == [store |-> q.store, type |-> "PAYOUT", amount |-> q.amount,
                 ref |-> q.account, status |-> "PENDING"]

LEMMA PayoutRowType ==
    \A q \in Money!Purse!WithdrawalRequest : PayoutRow(q) \in MoneyRow
BY AmountsAssumption
   DEF PayoutRow, Money!Purse!WithdrawalRequest, MoneyRow, WalletTransaction,
       WalletTransactionType, WalletTransactionStatus

\* A step of wallet.service.js or of finance keeps the types.
LEMMA WalletTypes ==
    ASSUME MoneyTypes, Money!WalletStep
    PROVE  MoneyTypes' /\ UNCHANGED <<soldOrders, soldBookings, commerceReqs>>
<1>0. UNCHANGED <<soldOrders, soldBookings, commerceReqs>> /\ Money!Purse!Next
  BY DEF Money!WalletStep, Money!commerceVars
<1> DEFINE Held == /\ soldLedger' \in Seq(MoneyRow)
                   /\ payoutAccounts' \subseteq Money!Purse!PayoutAccount
                   /\ walletReqs' \in [WalletRequests -> Money!Purse!Request]
<1>1. ASSUME NEW w \in WalletRequests
      PROVE  /\ walletReqs' = [walletReqs EXCEPT ![w] = Money!Purse!Idle]
                   => walletReqs' \in [WalletRequests -> Money!Purse!Request]
             /\ \A q \in Money!Purse!Request :
                   walletReqs' = [walletReqs EXCEPT ![w] = q]
                   => walletReqs' \in [WalletRequests -> Money!Purse!Request]
  BY DEF MoneyTypes, Money!Purse!Request
<1>2. ASSUME NEW w \in WalletRequests, NEW s \in MoneyStores, NEW isDefault \in BOOLEAN,
             Money!Purse!AddPayoutAccount(w, s, isDefault)
      PROVE  Held
  <2>1. [op |-> "account", store |-> s,
         isDefault |-> isDefault \/ Money!Purse!AccountsOf(s) = {}] \in Money!Purse!Request
    BY DEF Money!Purse!Request, Money!Purse!AccountRequest
  <2>2. walletReqs' \in [WalletRequests -> Money!Purse!Request]
    BY <1>1, <1>2, <2>1 DEF Money!Purse!AddPayoutAccount
  <2> QED
    BY <1>2, <2>2 DEF Money!Purse!AddPayoutAccount, MoneyTypes
<1>3. ASSUME NEW w \in WalletRequests, NEW id \in MoneyAccounts,
             Money!Purse!CommitPayoutAccount(w, id)
      PROVE  Held
  <2>1. walletReqs[w] \in Money!Purse!AccountRequest
    BY <1>3, MoneyRequests DEF Money!Purse!CommitPayoutAccount
  <2>2. Money!Purse!DefaultsCleared(walletReqs[w].store) \subseteq Money!Purse!PayoutAccount
    BY DEF Money!Purse!DefaultsCleared, Money!Purse!PayoutAccount, MoneyTypes
  <2>3. [id |-> id, store |-> walletReqs[w].store, isDefault |-> walletReqs[w].isDefault]
            \in Money!Purse!PayoutAccount
    BY <2>1 DEF Money!Purse!PayoutAccount, Money!Purse!AccountRequest
  <2>4. payoutAccounts' \subseteq Money!Purse!PayoutAccount
    BY <1>3, <2>2, <2>3 DEF Money!Purse!CommitPayoutAccount, MoneyTypes
  <2> QED
    BY <1>1, <1>3, <2>4 DEF Money!Purse!CommitPayoutAccount, MoneyTypes
<1>4. ASSUME NEW w \in WalletRequests, NEW s \in MoneyStores, NEW amount \in Amounts,
             Money!Purse!RequestWithdrawal(w, s, amount)
      PROVE  Held
  <2>1. PICK a \in Money!Purse!AccountsOf(s) :
            walletReqs' = [walletReqs EXCEPT ![w] = [op |-> "sum", store |-> s,
                                                     amount |-> amount, account |-> a.id]]
    BY <1>4 DEF Money!Purse!RequestWithdrawal
  <2>2. a.id \in MoneyAccounts
    BY DEF Money!Purse!AccountsOf, Money!Purse!PayoutAccount, MoneyTypes
  <2>3. [op |-> "sum", store |-> s, amount |-> amount, account |-> a.id]
            \in Money!Purse!Request
    BY <2>2 DEF Money!Purse!Request, Money!Purse!WithdrawalRequest
  <2>4. walletReqs' \in [WalletRequests -> Money!Purse!Request]
    BY <1>1, <2>1, <2>3
  <2> QED
    BY <1>4, <2>4 DEF Money!Purse!RequestWithdrawal, MoneyTypes
<1>5. ASSUME NEW w \in WalletRequests, Money!Purse!CheckBalance(w)
      PROVE  Held
  <2>1. walletReqs[w] \in Money!Purse!WithdrawalRequest
    BY <1>5, MoneyRequests DEF Money!Purse!CheckBalance
  <2>2. [walletReqs[w] EXCEPT !.op = "create"] \in Money!Purse!Request
    BY <2>1 DEF Money!Purse!Request, Money!Purse!WithdrawalRequest
  <2>3. walletReqs' = [walletReqs EXCEPT ![w] = [walletReqs[w] EXCEPT !.op = "create"]]
    BY <1>5 DEF Money!Purse!CheckBalance
  <2>4. walletReqs' \in [WalletRequests -> Money!Purse!Request]
    BY <1>1, <2>2, <2>3
  <2> QED
    BY <1>5, <2>4 DEF Money!Purse!CheckBalance, MoneyTypes
<1>6. ASSUME NEW w \in WalletRequests, Money!Purse!CreateWithdrawal(w)
      PROVE  Held
  <2>1. walletReqs[w] \in Money!Purse!WithdrawalRequest
    BY <1>6, MoneyRequests DEF Money!Purse!CreateWithdrawal
  <2>2. PayoutRow(walletReqs[w]) \in MoneyRow /\ soldLedger' = Append(soldLedger, PayoutRow(walletReqs[w]))
    BY <1>6, <2>1, PayoutRowType, SameLedger
       DEF Money!Purse!CreateWithdrawal, Money!Purse!WithPayout, CreateTransaction, PayoutRow
  <2>3. soldLedger' \in Seq(MoneyRow)
    BY <2>2 DEF MoneyTypes
  <2> QED
    BY <1>1, <1>6, <2>3 DEF Money!Purse!CreateWithdrawal, MoneyTypes
<1>7. ASSUME NEW w \in WalletRequests, Money!Purse!Fail(w)
      PROVE  Held
  BY <1>1, <1>7 DEF Money!Purse!Fail, MoneyTypes
<1>8. ASSUME NEW status \in {"COMPLETED", "FAILED"}, Money!Purse!DecidePayout(status)
      PROVE  Held
  <2>1. PICK i \in DOMAIN soldLedger :
            soldLedger' = [soldLedger EXCEPT ![i].status = status]
    BY <1>8 DEF Money!Purse!DecidePayout
  <2>2. soldLedger[i] \in MoneyRow
    BY DEF MoneyTypes
  <2>3. [soldLedger[i] EXCEPT !.status = status] \in MoneyRow
    BY <2>2 DEF MoneyRow, WalletTransaction, WalletTransactionStatus
  <2>4. soldLedger' \in Seq(MoneyRow)
    BY <2>1, <2>3 DEF MoneyTypes
  <2> QED
    BY <1>8, <2>4 DEF Money!Purse!DecidePayout, MoneyTypes
<1> HIDE DEF Held
<1>9. Held
  BY <1>0, <1>2, <1>3, <1>4, <1>5, <1>6, <1>7, <1>8 DEF Money!Purse!Next
<1> QED
  BY <1>0, <1>9 DEF Held, MoneyTypes

----------------------------------------------------------------------------
(* Payouts are covered *)

\* What a store was paid or asked for, and what its sales earned.
Spent(L, s)  == SumByTypeAndStatus(L, s, "PAYOUT", "COMPLETED")
                    + SumByTypeAndStatus(L, s, "PAYOUT", "PENDING")
Gained(L, s) == SumByTypeAndStatus(L, s, "EARNING", "COMPLETED")

\* Nothing is spent that was not earned, and the withdrawal that has passed its
\* check will not change that.
Covered(L, R) ==
    /\ \A s \in MoneyStores : Spent(L, s) <= Gained(L, s)
    /\ \A w \in WalletRequests : R[w].op = "create" =>
          R[w].amount + Spent(L, R[w].store) <= Gained(L, R[w].store)

MoneyInv == MoneyTypes /\ Covered(soldLedger, walletReqs)

LEMMA SpentType ==
    ASSUME NEW L \in Seq(MoneyRow), NEW s
    PROVE  Spent(L, s) \in Nat /\ Gained(L, s) \in Nat
BY SumType DEF MoneyRow, Spent, Gained

LEMMA SpentAppended ==
    ASSUME NEW L \in Seq(MoneyRow), NEW row \in MoneyRow, NEW s
    PROVE  /\ Spent(Append(L, row), s) =
                 Spent(L, s) + (IF /\ row.store = s /\ row.type = "PAYOUT"
                                   /\ row.status \in {"COMPLETED", "PENDING"}
                                THEN row.amount ELSE 0)
           /\ Gained(Append(L, row), s) =
                 Gained(L, s) + (IF /\ row.store = s /\ row.type = "EARNING"
                                    /\ row.status = "COMPLETED"
                                 THEN row.amount ELSE 0)
<1> DEFINE R == Orders \cup Bookings \cup MoneyAccounts
           plus(type, status) == IF row.store = s /\ row.type = type /\ row.status = status
                                 THEN row.amount ELSE 0
<1>1. L \in Seq(WalletTransaction(MoneyStores, R)) /\ row \in WalletTransaction(MoneyStores, R)
  BY DEF MoneyRow
<1>2. row.amount \in Nat
  BY <1>1 DEF WalletTransaction
<1>3. \A type, status :
         /\ SumByTypeAndStatus(L, s, type, status) \in Nat
         /\ SumByTypeAndStatus(Append(L, row), s, type, status) =
               SumByTypeAndStatus(L, s, type, status) + plus(type, status)
  BY <1>1, SumType, SumAppended
<1>4. /\ plus("PAYOUT", "COMPLETED") + plus("PAYOUT", "PENDING") =
            IF row.store = s /\ row.type = "PAYOUT" /\ row.status \in {"COMPLETED", "PENDING"}
            THEN row.amount ELSE 0
      /\ plus("PAYOUT", "COMPLETED") \in Nat /\ plus("PAYOUT", "PENDING") \in Nat
  BY <1>2
<1> QED
  BY <1>2, <1>3, <1>4 DEF Spent, Gained

\* Finance pays a requested payout, or refuses it and frees its amount.
LEMMA SpentMoves ==
    ASSUME NEW L \in Seq(MoneyRow), NEW M \in Seq(MoneyRow), NEW i \in DOMAIN L,
           L[i].type = "PAYOUT", L[i].status = "PENDING",
           NEW to \in {"COMPLETED", "FAILED"}, Moves(L, i, to, M), NEW s
    PROVE  Spent(M, s) <= Spent(L, s) /\ Gained(M, s) = Gained(L, s)
<1> DEFINE a == IF L[i].store = s THEN L[i].amount ELSE 0
           b == IF to = "COMPLETED" THEN a ELSE 0
<1>1. L[i] \in MoneyRow
  OBVIOUS
<1>2. a \in Nat /\ b \in Nat /\ b <= a
  BY <1>1 DEF MoneyRow, WalletTransaction
<1>3. /\ SumByTypeAndStatus(L, s, "EARNING", "COMPLETED") \in Nat
      /\ SumByTypeAndStatus(M, s, "EARNING", "COMPLETED") \in Nat
      /\ SumByTypeAndStatus(L, s, "PAYOUT", "COMPLETED") \in Nat
      /\ SumByTypeAndStatus(M, s, "PAYOUT", "COMPLETED") \in Nat
      /\ SumByTypeAndStatus(L, s, "PAYOUT", "PENDING") \in Nat
      /\ SumByTypeAndStatus(M, s, "PAYOUT", "PENDING") \in Nat
  BY SumType DEF MoneyRow
<1>4. SumByTypeAndStatus(M, s, "EARNING", "COMPLETED") + 0
          = SumByTypeAndStatus(L, s, "EARNING", "COMPLETED") + 0
  BY DEF Moves
<1>5. SumByTypeAndStatus(M, s, "PAYOUT", "COMPLETED") + 0
          = SumByTypeAndStatus(L, s, "PAYOUT", "COMPLETED") + b
  BY DEF Moves
<1>6. SumByTypeAndStatus(M, s, "PAYOUT", "PENDING") + a
          = SumByTypeAndStatus(L, s, "PAYOUT", "PENDING") + 0
  BY DEF Moves
<1> HIDE DEF a, b
<1> QED
  BY <1>2, <1>3, <1>4, <1>5, <1>6 DEF Spent, Gained

LEMMA SpentDecided ==
    ASSUME NEW L \in Seq(MoneyRow), NEW i \in DOMAIN L,
           L[i].type = "PAYOUT", L[i].status = "PENDING",
           NEW to \in {"COMPLETED", "FAILED"}, NEW M, M = [L EXCEPT ![i].status = to]
    PROVE  \A s : Spent(M, s) <= Spent(L, s) /\ Gained(M, s) = Gained(L, s)
<1>1. L[i] \in MoneyRow /\ to \in WalletTransactionStatus
  BY DEF WalletTransactionStatus
<1>2. Moves(L, i, to, M)
  BY <1>1, SumMoved DEF MoneyRow
<1>3. M \in Seq(MoneyRow)
  <2>1. [L[i] EXCEPT !.status = to] \in MoneyRow
    BY <1>1 DEF MoneyRow, WalletTransaction
  <2> QED
    BY <2>1
<1> QED
  BY <1>2, <1>3, SpentMoves

\* Nothing earned is lost: neither a sale's row nor finance takes cover away.
LEMMA CoverKept ==
    ASSUME NEW L \in Seq(MoneyRow), NEW M \in Seq(MoneyRow), NEW R, NEW Q,
           Covered(L, R),
           \A s : Spent(M, s) <= Spent(L, s) /\ Gained(L, s) <= Gained(M, s),
           \A w \in WalletRequests : Q[w].op = "create" =>
               Q[w] = R[w] /\ Q[w].amount \in Nat
    PROVE  Covered(M, Q)
<1>1. \A s : /\ Spent(L, s) \in Nat /\ Gained(L, s) \in Nat
             /\ Spent(M, s) \in Nat /\ Gained(M, s) \in Nat
  BY SpentType
<1>2. \A s \in MoneyStores : Spent(M, s) <= Gained(M, s)
  BY <1>1 DEF Covered
<1>3. ASSUME NEW w \in WalletRequests, Q[w].op = "create"
      PROVE  Q[w].amount + Spent(M, Q[w].store) <= Gained(M, Q[w].store)
  <2>1. /\ Q[w].amount \in Nat
        /\ Q[w].amount + Spent(L, Q[w].store) <= Gained(L, Q[w].store)
    BY <1>3 DEF Covered
  <2> DEFINE a == Q[w].amount
             s == Q[w].store
  <2> HIDE DEF a, s
  <2>2. a \in Nat /\ a + Spent(L, s) <= Gained(L, s)
    BY <2>1 DEF a, s
  <2>3. a + Spent(M, s) <= Gained(M, s)
    BY <1>1, <2>2
  <2> QED
    BY <2>3 DEF a, s
<1> QED
  BY <1>2, <1>3 DEF Covered

LEMMA MoneyTypesStep == MoneyTypes /\ [Money!Next]_(Money!vars) => MoneyTypes'
<1> SUFFICES ASSUME MoneyTypes, [Money!Next]_(Money!vars) PROVE MoneyTypes'
  OBVIOUS
<1>1. CASE Money!CommerceStep
  BY <1>1, CommerceTypes
<1>2. CASE Money!WalletStep
  BY <1>2, WalletTypes
<1>3. CASE UNCHANGED Money!vars
  BY <1>3 DEF Money!vars, Money!commerceVars, Money!walletVars, MoneyTypes
<1> QED
  BY <1>1, <1>2, <1>3 DEF Money!Next

LEMMA MoneyStep == MoneyInv /\ WithdrawalsInTurn /\ [Money!Next]_(Money!vars) => MoneyInv'
<1> SUFFICES ASSUME MoneyInv, WithdrawalsInTurn, [Money!Next]_(Money!vars) PROVE MoneyInv'
  OBVIOUS
<1>0. MoneyTypes /\ Covered(soldLedger, walletReqs) /\ soldLedger \in Seq(MoneyRow)
  BY DEF MoneyInv, MoneyTypes
<1>a. \A w \in WalletRequests : walletReqs[w].op \in {"sum", "create"} =>
          /\ walletReqs[w] \in Money!Purse!WithdrawalRequest
          /\ walletReqs[w].amount \in Nat /\ walletReqs[w].store \in MoneyStores
  BY <1>0, MoneyRequests, AmountsAssumption DEF Money!Purse!WithdrawalRequest
<1>b. MoneyTypes' /\ soldLedger' \in Seq(MoneyRow)
  BY <1>0, MoneyTypesStep DEF MoneyTypes
<1>c. \A s : /\ Spent(soldLedger, s) \in Nat /\ Gained(soldLedger, s) \in Nat
             /\ Spent(soldLedger, s) <= Spent(soldLedger, s)
             /\ Gained(soldLedger, s) <= Gained(soldLedger, s)
  BY <1>0, SpentType
\* commerce.service.js only adds earnings and refunds.
<1>1. ASSUME Money!CommerceStep PROVE Covered(soldLedger, walletReqs)'
  <2>1. /\ walletReqs' = walletReqs
        /\ \/ soldLedger' = soldLedger
           \/ \E row : SaleRow(row) /\ soldLedger' = Append(soldLedger, row)
    BY <1>0, <1>1, CommerceTypes
  <2>2. ASSUME NEW row, SaleRow(row), soldLedger' = Append(soldLedger, row)
        PROVE  \A s : /\ Spent(soldLedger', s) <= Spent(soldLedger, s)
                      /\ Gained(soldLedger, s) <= Gained(soldLedger', s)
    <3>1. row \in MoneyRow /\ row.type \in {"EARNING", "REFUND"} /\ row.amount \in Nat
      BY <2>2 DEF SaleRow, MoneyRow, WalletTransaction
    <3> TAKE s
    <3>2. /\ Spent(soldLedger', s) = Spent(soldLedger, s)
          /\ \/ Gained(soldLedger', s) = Gained(soldLedger, s)
             \/ Gained(soldLedger', s) = Gained(soldLedger, s) + row.amount
      BY <1>0, <1>c, <2>2, <3>1, SpentAppended
    <3> QED
      BY <1>c, <3>1, <3>2
  <2>3. \A s : /\ Spent(soldLedger', s) <= Spent(soldLedger, s)
               /\ Gained(soldLedger, s) <= Gained(soldLedger', s)
    BY <1>c, <2>1, <2>2
  <2>4. Covered(soldLedger', walletReqs')
    BY <1>0, <1>a, <1>b, <2>1, <2>3, CoverKept
  <2> QED
    BY <2>4
\* Requests that neither add a row nor pass the check.
<1>2. ASSUME soldLedger' = soldLedger,
             \A w \in WalletRequests : walletReqs'[w].op = "create" =>
                 walletReqs'[w] = walletReqs[w]
      PROVE  Covered(soldLedger, walletReqs)'
  <2>1. \A w \in WalletRequests : walletReqs'[w].op = "create" =>
            walletReqs'[w].amount + Spent(soldLedger, walletReqs'[w].store)
                <= Gained(soldLedger, walletReqs'[w].store)
    BY <1>0, <1>2 DEF Covered
  <2>2. Covered(soldLedger', walletReqs')
    BY <1>0, <1>2, <2>1 DEF Covered
  <2> QED
    BY <2>2
\* The check: the balance covers the amount, refunds deducted.
<1>3. ASSUME NEW w \in WalletRequests, Money!Purse!CheckBalance(w)
      PROVE  Covered(soldLedger, walletReqs)'
  <2> DEFINE a == walletReqs[w].amount
             t == walletReqs[w].store
             refunded == SumByTypeAndStatus(soldLedger, t, "REFUND", "COMPLETED")
  <2>1. a \in Nat /\ refunded \in Nat
    BY <1>0, <1>3, <1>a, SumType DEF Money!Purse!CheckBalance, MoneyRow
  <2>2. a <= Money!Purse!AvailableBalance(t)
    BY <1>3 DEF Money!Purse!CheckBalance
  <2>3. /\ SumByTypeAndStatus(soldLedger, t, "PAYOUT", "COMPLETED") \in Nat
        /\ SumByTypeAndStatus(soldLedger, t, "PAYOUT", "PENDING") \in Nat
        /\ SumByTypeAndStatus(soldLedger, t, "EARNING", "COMPLETED") \in Nat
    BY <1>0, SumType DEF MoneyRow
  <2>4. Money!Purse!AvailableBalance(t) =
            SumByTypeAndStatus(soldLedger, t, "EARNING", "COMPLETED")
              - SumByTypeAndStatus(soldLedger, t, "PAYOUT", "COMPLETED")
              - refunded
              - SumByTypeAndStatus(soldLedger, t, "PAYOUT", "PENDING")
    BY SameLedger DEF Money!Purse!AvailableBalance, Money!Purse!Earned, Money!Purse!PaidOut,
                      Money!Purse!Refunded, Money!Purse!PayoutInFlight
  <2> HIDE DEF a, t, refunded
  <2>5. a + Spent(soldLedger, t) <= Gained(soldLedger, t)
    BY <2>1, <2>2, <2>3, <2>4 DEF Spent, Gained
  <2>6. /\ soldLedger' = soldLedger
        /\ \A v \in WalletRequests : v # w => walletReqs'[v] = walletReqs[v]
        /\ walletReqs'[w].amount = a /\ walletReqs'[w].store = t
    <3>1. walletReqs[w] \in Money!Purse!WithdrawalRequest
      BY <1>3, <1>a DEF Money!Purse!CheckBalance
    <3>2. /\ [walletReqs[w] EXCEPT !.op = "create"].amount = a
          /\ [walletReqs[w] EXCEPT !.op = "create"].store = t
      BY <3>1 DEF Money!Purse!WithdrawalRequest, a, t
    <3> QED
      BY <1>0, <1>3, <3>2 DEF Money!Purse!CheckBalance, MoneyTypes
  <2>7. Covered(soldLedger', walletReqs')
    <3>1. \A v \in WalletRequests : walletReqs'[v].op = "create" =>
              walletReqs'[v].amount + Spent(soldLedger, walletReqs'[v].store)
                  <= Gained(soldLedger, walletReqs'[v].store)
      BY <1>0, <2>5, <2>6 DEF Covered
    <3> QED
      BY <1>0, <2>6, <3>1 DEF Covered
  <2> QED
    BY <2>7
\* The payout's row: its amount was reserved, and no other withdrawal of its store
\* is under way.
<1>4. ASSUME NEW w \in WalletRequests, Money!Purse!CreateWithdrawal(w)
      PROVE  Covered(soldLedger, walletReqs)'
  <2> DEFINE row == PayoutRow(walletReqs[w])
  <2>1. /\ row \in MoneyRow /\ row.store = walletReqs[w].store /\ row.store \in MoneyStores
        /\ row.amount = walletReqs[w].amount /\ row.amount \in Nat
        /\ row.type = "PAYOUT" /\ row.status = "PENDING"
    BY <1>4, <1>a, PayoutRowType DEF Money!Purse!CreateWithdrawal, PayoutRow
  <2>2. soldLedger' = Append(soldLedger, row)
    BY <1>4, SameLedger
       DEF Money!Purse!CreateWithdrawal, Money!Purse!WithPayout, CreateTransaction, PayoutRow
  <2>3. ASSUME NEW v \in WalletRequests, walletReqs'[v].op = "create"
        PROVE  /\ walletReqs'[v] = walletReqs[v] /\ walletReqs[v].store # row.store
               /\ walletReqs[v].amount + Spent(soldLedger, walletReqs[v].store)
                      <= Gained(soldLedger, walletReqs[v].store)
    <3>1. walletReqs' = [walletReqs EXCEPT ![w] = Money!Purse!Idle] /\ walletReqs[w].op = "create"
      BY <1>4 DEF Money!Purse!CreateWithdrawal
    <3>2. v # w /\ walletReqs'[v] = walletReqs[v] /\ walletReqs[v].op = "create"
      BY <1>0, <2>3, <3>1 DEF Money!Purse!Idle, MoneyTypes
    <3> QED
      BY <1>0, <2>1, <3>1, <3>2 DEF WithdrawalsInTurn, Covered
  <2>4. row.amount + Spent(soldLedger, row.store) <= Gained(soldLedger, row.store)
    BY <1>0, <1>4, <2>1 DEF Covered, Money!Purse!CreateWithdrawal
  <2> HIDE DEF row
  <2>5. \A s : /\ Gained(soldLedger', s) = Gained(soldLedger, s)
               /\ Spent(soldLedger', s) =
                     Spent(soldLedger, s) + (IF s = row.store THEN row.amount ELSE 0)
    BY <1>0, <1>c, <2>1, <2>2, SpentAppended
  <2>6. \A s \in MoneyStores : Spent(soldLedger', s) <= Gained(soldLedger', s)
    BY <1>0, <1>c, <2>1, <2>4, <2>5 DEF Covered
  <2>7. ASSUME NEW v \in WalletRequests, walletReqs'[v].op = "create"
        PROVE  walletReqs'[v].amount + Spent(soldLedger', walletReqs'[v].store)
                   <= Gained(soldLedger', walletReqs'[v].store)
    <3> DEFINE t == walletReqs[v].store
               a == walletReqs[v].amount
    <3>1. walletReqs'[v] = walletReqs[v] /\ t # row.store
          /\ a + Spent(soldLedger, t) <= Gained(soldLedger, t)
      BY <2>3, <2>7
    <3>2. walletReqs'[v].store = t /\ walletReqs'[v].amount = a
      BY <3>1
    <3> HIDE DEF t, a
    <3>3. Gained(soldLedger', t) = Gained(soldLedger, t)
          /\ Spent(soldLedger', t) = Spent(soldLedger, t) + 0
      BY <2>5, <3>1
    <3>4. Spent(soldLedger', t) = Spent(soldLedger, t)
      BY <1>c, <3>3
    <3> QED
      BY <3>1, <3>2, <3>3, <3>4
  <2>8. Covered(soldLedger', walletReqs')
    BY <2>6, <2>7 DEF Covered
  <2> QED
    BY <2>8
\* Finance pays what was asked for, or frees it.
<1>5. ASSUME NEW to \in {"COMPLETED", "FAILED"}, Money!Purse!DecidePayout(to)
      PROVE  Covered(soldLedger, walletReqs)'
  <2>1. PICK i \in DOMAIN soldLedger :
            /\ soldLedger[i].type = "PAYOUT" /\ soldLedger[i].status = "PENDING"
            /\ soldLedger' = [soldLedger EXCEPT ![i].status = to]
    BY <1>5 DEF Money!Purse!DecidePayout
  <2>2. \A s : /\ Spent(soldLedger', s) <= Spent(soldLedger, s)
               /\ Gained(soldLedger', s) = Gained(soldLedger, s)
    BY <1>0, <2>1, SpentDecided
  <2>3. \A s : Gained(soldLedger, s) <= Gained(soldLedger', s)
    BY <1>c, <2>2
  <2>4. walletReqs' = walletReqs
    BY <1>5 DEF Money!Purse!DecidePayout
  <2>5. Covered(soldLedger', walletReqs')
    BY <1>0, <1>a, <1>b, <2>2, <2>3, <2>4, CoverKept
  <2> QED
    BY <2>5
<1>6. ASSUME NEW w \in WalletRequests,
             \/ \E s \in MoneyStores, isDefault \in BOOLEAN :
                   Money!Purse!AddPayoutAccount(w, s, isDefault)
             \/ \E id \in MoneyAccounts : Money!Purse!CommitPayoutAccount(w, id)
             \/ \E s \in MoneyStores, amount \in Amounts :
                   Money!Purse!RequestWithdrawal(w, s, amount)
             \/ Money!Purse!Fail(w)
      PROVE  Covered(soldLedger, walletReqs)'
  <2>1. soldLedger' = soldLedger
    BY <1>6 DEF Money!Purse!AddPayoutAccount, Money!Purse!CommitPayoutAccount,
                Money!Purse!RequestWithdrawal, Money!Purse!Fail
  <2>2. \E q : q.op # "create" /\ walletReqs' = [walletReqs EXCEPT ![w] = q]
    BY <1>6 DEF Money!Purse!AddPayoutAccount, Money!Purse!CommitPayoutAccount,
                Money!Purse!RequestWithdrawal, Money!Purse!Fail, Money!Purse!Idle
  <2>3. \A v \in WalletRequests : walletReqs'[v].op = "create" => walletReqs'[v] = walletReqs[v]
    BY <1>0, <2>2 DEF MoneyTypes
  <2> QED
    BY <1>2, <2>1, <2>3
<1>7. Covered(soldLedger, walletReqs)'
  <2>1. CASE UNCHANGED Money!vars
    BY <1>2, <2>1 DEF Money!vars, Money!walletVars
  <2>2. CASE Money!WalletStep
    BY <1>3, <1>4, <1>5, <1>6, <2>2 DEF Money!WalletStep, Money!Purse!Next
  <2> QED
    BY <1>1, <2>1, <2>2 DEF Money!Next
<1> QED
  BY <1>b, <1>7 DEF MoneyInv

LEMMA MoneyStart == Money!Init => MoneyInv
<1> SUFFICES ASSUME Money!Init PROVE MoneyInv
  OBVIOUS
<1>1. Money!Commerce!Init /\ Money!Purse!Init
  BY DEF Money!Init
<1>2. soldOrders \in [Orders -> Money!Commerce!Order]
  BY <1>1 DEF Money!Commerce!Init, Money!Commerce!Order, Money!Commerce!OrderStatus,
              Money!Commerce!Reason
<1>3. soldBookings \in [Bookings -> Money!Commerce!Booking]
  BY <1>1 DEF Money!Commerce!Init, Money!Commerce!Booking, Money!Commerce!BookingStatus,
              Money!Commerce!Reason
<1>4. /\ soldLedger = <<>> /\ payoutAccounts = {}
      /\ commerceReqs \in [CommerceRequests -> Money!Commerce!Request]
      /\ walletReqs \in [WalletRequests -> Money!Purse!Request]
      /\ \A w \in WalletRequests : walletReqs[w].op # "create"
  BY <1>1 DEF Money!Commerce!Init, Money!Purse!Init, Money!Commerce!Request,
              Money!Purse!Request, Money!Purse!Idle
<1>5. soldLedger \in Seq(MoneyRow)
  BY <1>4
<1>6. MoneyTypes
  BY <1>2, <1>3, <1>4, <1>5 DEF MoneyTypes
<1>7. \A s : Spent(soldLedger, s) = 0 /\ Gained(soldLedger, s) = 0
  <2>1. \A s, type, status : Matching(soldLedger, s, type, status) = {}
    BY <1>4 DEF Matching
  <2>2. RowSum(soldLedger, {}) = 0
    <3>1. PICK h \in [SUBSET {} -> Nat] :
              /\ Sums([i \in {} |-> soldLedger[i].amount], {}, h)
              /\ RowSum(soldLedger, {}) = h[{}]
      BY FS_EmptySet, RowSumIs
    <3> QED
      BY <3>1 DEF Sums
  <2> QED
    BY <2>1, <2>2, SumIsRowSum DEF Spent, Gained
<1>8. Covered(soldLedger, walletReqs)
  BY <1>4, <1>7 DEF Covered
<1> QED
  BY <1>6, <1>8 DEF MoneyInv

LEMMA MoneyTypesAlways == Money!Spec => []MoneyTypes
<1>1. Money!Init => MoneyTypes
  BY MoneyStart DEF MoneyInv
<1> QED
  BY <1>1, MoneyTypesStep, PTL DEF Money!Spec

LEMMA MoneyAlways == Money!Spec /\ []WithdrawalsInTurn => []MoneyInv
BY MoneyStart, MoneyStep, PTL DEF Money!Spec

----------------------------------------------------------------------------
(* The services implement SaleSettlement *)

\* What a request loaded of its sale is what the table still holds, and the move
\* it will commit is a legal one.
LoadedIsCurrent ==
    \A c \in CommerceRequests :
        LET q == commerceReqs[c] IN
        /\ q.op = "order" =>
              /\ q.row.status = soldOrders[q.id].status
              /\ Money!Commerce!OrderMayMove(q.row, q.status, q.reason)
        /\ q.op = "booking" =>
              /\ q.row.status = soldBookings[q.id].status
              /\ Money!Commerce!BookingMayMove(q.row, q.status, q.reason)

LEMMA LoadedStep ==
    MoneyTypes /\ LoadedIsCurrent /\ SalesInTurn /\ [Money!Next]_(Money!vars)
        => LoadedIsCurrent'
<1> SUFFICES ASSUME MoneyTypes, LoadedIsCurrent, SalesInTurn, [Money!Next]_(Money!vars)
             PROVE  LoadedIsCurrent'
  OBVIOUS
<1>1. CASE UNCHANGED <<soldOrders, soldBookings, commerceReqs>>
  BY <1>1 DEF LoadedIsCurrent
\* A request that ends leaves the others what they loaded: it moved no sale of theirs.
<1>2. ASSUME NEW c \in CommerceRequests,
             commerceReqs' = [commerceReqs EXCEPT ![c] = Money!Commerce!Idle],
             \A d \in CommerceRequests : d # c =>
                /\ commerceReqs[d].op = "order" =>
                      soldOrders'[commerceReqs[d].id].status
                          = soldOrders[commerceReqs[d].id].status
                /\ commerceReqs[d].op = "booking" =>
                      soldBookings'[commerceReqs[d].id].status
                          = soldBookings[commerceReqs[d].id].status
      PROVE  LoadedIsCurrent'
  <2>1. /\ commerceReqs'[c].op = "idle"
        /\ \A d \in CommerceRequests : d # c => commerceReqs'[d] = commerceReqs[d]
    BY <1>2 DEF MoneyTypes, Money!Commerce!Idle
  <2> QED
    BY <1>2, <2>1 DEF LoadedIsCurrent
<1>3. ASSUME NEW c \in CommerceRequests, Money!Commerce!CommitOrderStatus(c)
      PROVE  LoadedIsCurrent'
  <2>1. commerceReqs[c] \in Money!Commerce!OrderRequest /\ commerceReqs[c].op = "order"
    BY <1>3, MoneyRequests DEF Money!Commerce!CommitOrderStatus
  <2>2. /\ \A o \in Orders : o # commerceReqs[c].id => soldOrders'[o] = soldOrders[o]
        /\ soldBookings' = soldBookings
        /\ commerceReqs' = [commerceReqs EXCEPT ![c] = Money!Commerce!Idle]
    BY <1>3 DEF Money!Commerce!CommitOrderStatus, MoneyTypes
  <2>3. ASSUME NEW d \in CommerceRequests, d # c, commerceReqs[d].op = "order"
        PROVE  soldOrders'[commerceReqs[d].id] = soldOrders[commerceReqs[d].id]
    <3>1. commerceReqs[d].id \in Orders
      BY <2>3, MoneyRequests DEF Money!Commerce!OrderRequest
    <3> QED
      BY <2>1, <2>2, <2>3, <3>1 DEF SalesInTurn
  <2> QED
    BY <1>2, <2>2, <2>3
<1>4. ASSUME NEW c \in CommerceRequests, Money!Commerce!CommitBookingStatus(c)
      PROVE  LoadedIsCurrent'
  <2>1. commerceReqs[c] \in Money!Commerce!BookingRequest /\ commerceReqs[c].op = "booking"
    BY <1>4, MoneyRequests DEF Money!Commerce!CommitBookingStatus
  <2>2. /\ \A b \in Bookings : b # commerceReqs[c].id => soldBookings'[b] = soldBookings[b]
        /\ soldOrders' = soldOrders
        /\ commerceReqs' = [commerceReqs EXCEPT ![c] = Money!Commerce!Idle]
    BY <1>4 DEF Money!Commerce!CommitBookingStatus, MoneyTypes
  <2>3. ASSUME NEW d \in CommerceRequests, d # c, commerceReqs[d].op = "booking"
        PROVE  soldBookings'[commerceReqs[d].id] = soldBookings[commerceReqs[d].id]
    <3>1. commerceReqs[d].id \in Bookings
      BY <2>3, MoneyRequests DEF Money!Commerce!BookingRequest
    <3> QED
      BY <2>1, <2>2, <2>3, <3>1 DEF SalesInTurn
  <2> QED
    BY <1>2, <2>2, <2>3
<1>5. ASSUME NEW c \in CommerceRequests, Money!Commerce!CommitReschedule(c)
      PROVE  LoadedIsCurrent'
  <2>1. commerceReqs[c] \in Money!Commerce!RescheduleRequest
    BY <1>5, MoneyRequests DEF Money!Commerce!CommitReschedule
  <2>2. \A b \in Bookings : soldBookings'[b].status = soldBookings[b].status
    BY <1>5, <2>1 DEF Money!Commerce!CommitReschedule, Money!Commerce!RescheduleRequest,
                      Money!Commerce!Booking, MoneyTypes
  <2>3. \A d \in CommerceRequests : commerceReqs[d].op = "booking" =>
            commerceReqs[d].id \in Bookings
    BY MoneyRequests DEF Money!Commerce!BookingRequest
  <2> QED
    BY <1>2, <1>5, <2>2, <2>3 DEF Money!Commerce!CommitReschedule
<1>6. ASSUME NEW c \in CommerceRequests, Money!Commerce!Fail(c)
      PROVE  LoadedIsCurrent'
  BY <1>2, <1>6 DEF Money!Commerce!Fail
\* A request that starts loads the row, and checks its move on it.
<1>7. ASSUME NEW c \in CommerceRequests, NEW q,
             commerceReqs' = [commerceReqs EXCEPT ![c] = q],
             UNCHANGED <<soldOrders, soldBookings>>,
             q.op = "order" => /\ q.row.status = soldOrders[q.id].status
                               /\ Money!Commerce!OrderMayMove(q.row, q.status, q.reason),
             q.op = "booking" => /\ q.row.status = soldBookings[q.id].status
                                 /\ Money!Commerce!BookingMayMove(q.row, q.status, q.reason)
      PROVE  LoadedIsCurrent'
  <2>1. /\ commerceReqs'[c] = q
        /\ \A d \in CommerceRequests : d # c => commerceReqs'[d] = commerceReqs[d]
    BY <1>7 DEF MoneyTypes
  <2> QED
    BY <1>7, <2>1 DEF LoadedIsCurrent
<1>8. ASSUME NEW c \in CommerceRequests, NEW s \in MoneyStores, NEW o \in Orders,
             NEW status \in Money!Commerce!OrderStatus, NEW reason \in Money!Commerce!Reason,
             Money!Commerce!SetOrderStatus(c, s, o, status, reason)
      PROVE  LoadedIsCurrent'
  <2>1. PICK q : q = [op |-> "order", store |-> s, id |-> o, status |-> status,
                      reason |-> reason, row |-> soldOrders[o]]
    OBVIOUS
  <2>2. /\ commerceReqs' = [commerceReqs EXCEPT ![c] = q]
        /\ UNCHANGED <<soldOrders, soldBookings>>
        /\ Money!Commerce!OrderMayMove(soldOrders[o], status, reason)
    BY <1>8, <2>1 DEF Money!Commerce!SetOrderStatus
  <2>3. /\ q.op = "order" /\ q.row = soldOrders[q.id] /\ q.status = status
        /\ q.reason = reason /\ q.row = soldOrders[o]
    BY <2>1
  <2> QED
    BY <1>7, <2>2, <2>3
<1>9. ASSUME NEW c \in CommerceRequests, NEW s \in MoneyStores, NEW b \in Bookings,
             NEW status \in Money!Commerce!BookingStatus, NEW reason \in Money!Commerce!Reason,
             Money!Commerce!SetBookingStatus(c, s, b, status, reason)
      PROVE  LoadedIsCurrent'
  <2>1. PICK q : q = [op |-> "booking", store |-> s, id |-> b, status |-> status,
                      reason |-> reason, row |-> soldBookings[b]]
    OBVIOUS
  <2>2. /\ commerceReqs' = [commerceReqs EXCEPT ![c] = q]
        /\ UNCHANGED <<soldOrders, soldBookings>>
        /\ Money!Commerce!BookingMayMove(soldBookings[b], status, reason)
    BY <1>9, <2>1 DEF Money!Commerce!SetBookingStatus
  <2>3. /\ q.op = "booking" /\ q.row = soldBookings[q.id] /\ q.status = status
        /\ q.reason = reason /\ q.row = soldBookings[b]
    BY <2>1
  <2> QED
    BY <1>7, <2>2, <2>3
<1>10. ASSUME NEW c \in CommerceRequests, NEW s \in MoneyStores, NEW b \in Bookings,
              NEW slot \in MoneySlots, Money!Commerce!RescheduleBooking(c, s, b, slot)
       PROVE  LoadedIsCurrent'
  <2>1. PICK q : q = [op |-> "reschedule", id |-> b, scheduledAt |-> slot,
                      row |-> soldBookings[b]]
    OBVIOUS
  <2>2. /\ commerceReqs' = [commerceReqs EXCEPT ![c] = q]
        /\ UNCHANGED <<soldOrders, soldBookings>> /\ q.op = "reschedule"
    BY <1>10, <2>1 DEF Money!Commerce!RescheduleBooking
  <2> QED
    BY <1>7, <2>2
<1>11. CASE Money!CommerceStep
  <2>1. Money!Commerce!Next
    BY <1>11 DEF Money!CommerceStep
  <2> QED
    BY <1>3, <1>4, <1>5, <1>6, <1>8, <1>9, <1>10, <2>1 DEF Money!Commerce!Next
<1> QED
  BY <1>1, <1>11 DEF Money!Next, Money!WalletStep, Money!vars, Money!commerceVars

\* How many rows of a type a sale has.
Count(L, type, x) == Cardinality(RowsFor(L, type, x))

LEMMA CountAppended ==
    ASSUME NEW L \in Seq(MoneyRow), NEW row \in MoneyRow, NEW type, NEW x
    PROVE  /\ Count(L, type, x) \in Nat
           /\ Count(Append(L, row), type, x) =
                 IF row.type = type /\ row.ref = x THEN Count(L, type, x) + 1
                                                   ELSE Count(L, type, x)
<1> DEFINE M == Append(L, row)
           n == Len(L) + 1
           T == RowsFor(L, type, x)
<1>1. /\ DOMAIN L = 1 .. Len(L) /\ Len(L) \in Nat /\ n \notin DOMAIN L
      /\ DOMAIN M = DOMAIN L \cup {n} /\ M[n] = row /\ \A i \in DOMAIN L : M[i] = L[i]
  <2>1. DOMAIN L = 1 .. Len(L) /\ Len(L) \in Nat
    OBVIOUS
  <2>2. M \in Seq(MoneyRow) /\ Len(M) = Len(L) + 1 /\ DOMAIN M = 1 .. Len(M)
    OBVIOUS
  <2>3. M[n] = row /\ \A i \in DOMAIN L : M[i] = L[i]
    OBVIOUS
  <2> HIDE DEF M
  <2> QED
    BY <2>1, <2>2, <2>3
<1>2. IsFiniteSet(T) /\ n \notin T
  <2>1. IsFiniteSet(DOMAIN L)
    BY <1>1, FS_Interval
  <2>2. T \subseteq DOMAIN L
    BY DEF RowsFor
  <2> QED
    BY <1>1, <2>1, <2>2, FS_Subset
<1> HIDE DEF M, n
<1>3. RowsFor(M, type, x) = IF row.type = type /\ row.ref = x THEN T \cup {n} ELSE T
  BY <1>1 DEF RowsFor
<1> HIDE DEF T
<1>4. Cardinality(T) \in Nat /\ Cardinality(T \cup {n}) = Cardinality(T) + 1
  BY <1>2, FS_CardinalityType, FS_AddElement
<1> QED
  BY <1>3, <1>4 DEF Count, M, T

\* Where the abstract state is: the phase of a sale and its rows.
LEMMA SettlementState ==
    /\ Money!Commerce!Sales = Orders \cup Bookings
    /\ \A x : Money!Commerce!Cardinality(Money!Commerce!RowsFor(soldLedger, "EARNING", x))
                 = Count(soldLedger, "EARNING", x)
    /\ \A x : Money!Commerce!Cardinality(Money!Commerce!RowsFor(soldLedger, "REFUND", x))
                 = Count(soldLedger, "REFUND", x)
BY DEF Money!Commerce!Sales, Money!Commerce!Cardinality, Cardinality, Money!Commerce!RowsFor,
       RowsFor, Count

LEMMA SettlementStateNext ==
    /\ \A x : Money!Commerce!Cardinality(Money!Commerce!RowsFor(soldLedger', "EARNING", x))
                 = Count(soldLedger', "EARNING", x)
    /\ \A x : Money!Commerce!Cardinality(Money!Commerce!RowsFor(soldLedger', "REFUND", x))
                 = Count(soldLedger', "REFUND", x)
BY DEF Money!Commerce!Cardinality, Cardinality, Money!Commerce!RowsFor, RowsFor, Count

\* The abstract steps, told from what happens to each sale.
LEMMA SettlementStutters ==
    ASSUME \A x \in Orders \cup Bookings :
              /\ Money!Commerce!Phase(x)' = Money!Commerce!Phase(x)
              /\ Count(soldLedger', "EARNING", x) = Count(soldLedger, "EARNING", x)
              /\ Count(soldLedger', "REFUND", x) = Count(soldLedger, "REFUND", x)
    PROVE  UNCHANGED Money!Commerce!Settlement!vars
BY SettlementState, SettlementStateNext DEF Money!Commerce!Settlement!vars, Money!Commerce!Sales

LEMMA SettlementSteps ==
    ASSUME NEW x \in Orders \cup Bookings,
           \A y \in Orders \cup Bookings : y # x =>
              /\ Money!Commerce!Phase(y)' = Money!Commerce!Phase(y)
              /\ Count(soldLedger', "EARNING", y) = Count(soldLedger, "EARNING", y)
              /\ Count(soldLedger', "REFUND", y) = Count(soldLedger, "REFUND", y)
    PROVE  /\ /\ Money!Commerce!Phase(x) = "open" /\ Money!Commerce!Phase(x)' = "settled"
              /\ Count(soldLedger', "EARNING", x) = Count(soldLedger, "EARNING", x) + 1
              /\ Count(soldLedger', "REFUND", x) = Count(soldLedger, "REFUND", x)
              => Money!Commerce!Settlement!Settle(x)
           /\ /\ Money!Commerce!Phase(x) = "open" /\ Money!Commerce!Phase(x)' = "void"
              /\ Count(soldLedger', "EARNING", x) = Count(soldLedger, "EARNING", x)
              /\ Count(soldLedger', "REFUND", x) = Count(soldLedger, "REFUND", x)
              => Money!Commerce!Settlement!Void(x)
           /\ /\ x \in Orders
              /\ Money!Commerce!Phase(x) = "settled" /\ Money!Commerce!Phase(x)' = "reversed"
              /\ Count(soldLedger', "EARNING", x) = Count(soldLedger, "EARNING", x)
              /\ Count(soldLedger', "REFUND", x) = Count(soldLedger, "REFUND", x) + 1
              => Money!Commerce!Settlement!Reverse(x)
<1>1. x \in Money!Commerce!Sales /\ Money!Commerce!Sales' = Money!Commerce!Sales
  BY DEF Money!Commerce!Sales
<1> QED
  BY <1>1, SettlementState, SettlementStateNext
     DEF Money!Commerce!Settlement!Settle, Money!Commerce!Settlement!Void,
         Money!Commerce!Settlement!Reverse

\* What happens to a sale whose status moves from one value to another.
PhaseOf(status) ==
    CASE status \in {"DELIVERED", "COMPLETED"} -> "settled"
      [] status = "RETURNED"                   -> "reversed"
      [] status = "CANCELLED"                  -> "void"
      [] OTHER                                 -> "open"

LEMMA PhaseIs ==
    /\ \A o \in Orders : Money!Commerce!Phase(o) = PhaseOf(soldOrders[o].status)
    /\ \A b \in Bookings : Money!Commerce!Phase(b) = PhaseOf(soldBookings[b].status)
BY CommerceAssumption DEF Money!Commerce!Phase, Money!Commerce!StatusOf, PhaseOf

LEMMA PhaseIsNext ==
    /\ \A o \in Orders : Money!Commerce!Phase(o)' = PhaseOf(soldOrders'[o].status)
    /\ \A b \in Bookings : Money!Commerce!Phase(b)' = PhaseOf(soldBookings'[b].status)
BY CommerceAssumption DEF Money!Commerce!Phase, Money!Commerce!StatusOf, PhaseOf

\* The legal moves of an order and of a booking, as phases.
LEMMA OrderPhases ==
    ASSUME NEW o \in Money!Commerce!Order, NEW status, NEW reason,
           Money!Commerce!OrderMayMove(o, status, reason)
    PROVE  /\ status = "DELIVERED" => PhaseOf(o.status) = "open"
           /\ status = "RETURNED" => PhaseOf(o.status) = "settled"
           /\ status = "CANCELLED" => PhaseOf(o.status) = "open"
           /\ status \notin {"DELIVERED", "RETURNED", "CANCELLED"} =>
                 PhaseOf(o.status) = "open" /\ PhaseOf(status) = "open"
BY DEF Money!Commerce!OrderMayMove, Money!Commerce!OrderStatusTransitions,
       Money!Commerce!Order, Money!Commerce!OrderStatus, PhaseOf

LEMMA BookingPhases ==
    ASSUME NEW b \in Money!Commerce!Booking, NEW status, NEW reason,
           Money!Commerce!BookingMayMove(b, status, reason)
    PROVE  /\ PhaseOf(b.status) = "open"
           /\ status \notin {"COMPLETED", "CANCELLED"} => PhaseOf(status) = "open"
           /\ status # "RETURNED"
BY DEF Money!Commerce!BookingMayMove, Money!Commerce!BookingStatusTransitions,
       Money!Commerce!Booking, Money!Commerce!BookingStatus, PhaseOf

\* The transaction of setOrderStatus settles, voids or reverses its order, or
\* is no step of a settlement.
LEMMA OrderSettles ==
    ASSUME MoneyTypes, LoadedIsCurrent, NEW c \in CommerceRequests,
           Money!Commerce!CommitOrderStatus(c)
    PROVE  Money!Commerce!Settlement!Next \/ UNCHANGED Money!Commerce!Settlement!vars
<1> DEFINE q == commerceReqs[c]
           entry(type) == [store |-> q.store, type |-> type, amount |-> AmountOf[q.id],
                           ref |-> q.id, status |-> "COMPLETED"]
<1>1. /\ q \in Money!Commerce!OrderRequest /\ q.op = "order"
      /\ q.row.status = soldOrders[q.id].status
      /\ Money!Commerce!OrderMayMove(q.row, q.status, q.reason)
  BY MoneyRequests DEF Money!Commerce!CommitOrderStatus, LoadedIsCurrent
<1>2. /\ q.id \in Orders /\ q.id \in Orders \cup Bookings /\ q.store \in MoneyStores
      /\ q.row \in Money!Commerce!Order
  BY <1>1 DEF Money!Commerce!OrderRequest
<1>3. /\ soldOrders'[q.id].status = q.status
      /\ \A o \in Orders : o # q.id => soldOrders'[o] = soldOrders[o]
      /\ soldBookings' = soldBookings
  BY <1>1, <1>2 DEF Money!Commerce!CommitOrderStatus, Money!Commerce!Saved, MoneyTypes
<1>4. /\ q.status = "DELIVERED" => soldLedger' = Append(soldLedger, entry("EARNING"))
      /\ q.status = "RETURNED" => soldLedger' = Append(soldLedger, entry("REFUND"))
      /\ q.status \notin {"DELIVERED", "RETURNED"} => soldLedger' = soldLedger
  BY DEF Money!Commerce!CommitOrderStatus, Money!Commerce!WithOrderEntry,
         Money!Commerce!WithEntry, Money!Commerce!CreateTransaction
<1>5. \A type \in {"EARNING", "REFUND"} :
         entry(type) \in MoneyRow /\ entry(type).type = type /\ entry(type).ref = q.id
  BY <1>2, SaleRowOf DEF SaleRow
<1>6. PICK x \in Orders : x = q.id
  BY <1>2
<1>7. /\ Money!Commerce!Phase(x) = PhaseOf(q.row.status)
      /\ Money!Commerce!Phase(x)' = PhaseOf(q.status)
      /\ \A y \in Orders \cup Bookings : y # x =>
            Money!Commerce!Phase(y)' = Money!Commerce!Phase(y)
  <2>1. \A y \in Orders : y # x => Money!Commerce!Phase(y)' = Money!Commerce!Phase(y)
    BY <1>3, <1>6, PhaseIs, PhaseIsNext
  <2>2. \A y \in Bookings : Money!Commerce!Phase(y)' = Money!Commerce!Phase(y)
    BY <1>3, PhaseIs, PhaseIsNext
  <2>3. /\ Money!Commerce!Phase(x) = PhaseOf(q.row.status)
        /\ Money!Commerce!Phase(x)' = PhaseOf(q.status)
    BY <1>1, <1>3, <1>6, PhaseIs, PhaseIsNext
  <2> QED
    BY <2>1, <2>2, <2>3
<1> DEFINE rows(type, y) == Count(soldLedger', type, y) = Count(soldLedger, type, y)
           more(type, y) == Count(soldLedger', type, y) = Count(soldLedger, type, y) + 1
<1>8. \A type \in {"EARNING", "REFUND"} :
         soldLedger' = Append(soldLedger, entry(type)) =>
            /\ more(type, x)
            /\ \A y : y # x => rows(type, y)
            /\ \A u \in {"EARNING", "REFUND"} : u # type => \A y : rows(u, y)
  <2> SUFFICES ASSUME NEW type \in {"EARNING", "REFUND"},
                      soldLedger' = Append(soldLedger, entry(type))
               PROVE  /\ more(type, x)
                      /\ \A y : y # x => rows(type, y)
                      /\ \A u \in {"EARNING", "REFUND"} : u # type => \A y : rows(u, y)
    OBVIOUS
  <2>1. entry(type) \in MoneyRow /\ entry(type).type = type /\ entry(type).ref = x
    BY <1>5, <1>6
  <2>2. \A u, y : Count(Append(soldLedger, entry(type)), u, y) =
                     IF entry(type).type = u /\ entry(type).ref = y
                     THEN Count(soldLedger, u, y) + 1 ELSE Count(soldLedger, u, y)
    <3> HIDE DEF entry
    <3> QED
      BY <2>1, CountAppended DEF MoneyTypes
  <2> HIDE DEF entry
  <2> QED
    BY <2>1, <2>2
<1>9. \A type, y : soldLedger' = soldLedger => rows(type, y)
  OBVIOUS
<1>10. PICK status, was : status = q.status /\ was = q.row.status
  OBVIOUS
<1>11. /\ status = "DELIVERED" => PhaseOf(was) = "open"
       /\ status = "RETURNED" => PhaseOf(was) = "settled"
       /\ status = "CANCELLED" => PhaseOf(was) = "open"
       /\ status \notin {"DELIVERED", "RETURNED", "CANCELLED"} =>
             PhaseOf(was) = "open" /\ PhaseOf(status) = "open"
  BY <1>1, <1>2, <1>10, OrderPhases
<1>12. /\ PhaseOf("DELIVERED") = "settled" /\ PhaseOf("RETURNED") = "reversed"
       /\ PhaseOf("CANCELLED") = "void"
  BY DEF PhaseOf
<1>13. x \in Money!Commerce!Sales /\ x \in Orders \cup Bookings
  BY DEF Money!Commerce!Sales
<1> HIDE DEF q, entry
<1>14. CASE status = "DELIVERED"
  <2>1. Money!Commerce!Settlement!Settle(x)
    BY <1>4, <1>7, <1>8, <1>10, <1>11, <1>12, <1>13, <1>14, SettlementSteps
  <2> QED
    BY <1>13, <2>1 DEF Money!Commerce!Settlement!Next
<1>15. CASE status = "RETURNED"
  <2>1. Money!Commerce!Settlement!Reverse(x)
    BY <1>4, <1>7, <1>8, <1>10, <1>11, <1>12, <1>13, <1>15, SettlementSteps
  <2> QED
    BY <1>13, <2>1 DEF Money!Commerce!Settlement!Next
<1>16. CASE status = "CANCELLED"
  <2>1. Money!Commerce!Settlement!Void(x)
    BY <1>4, <1>7, <1>9, <1>10, <1>11, <1>12, <1>13, <1>16, SettlementSteps
  <2> QED
    BY <1>13, <2>1 DEF Money!Commerce!Settlement!Next
<1>17. CASE status \notin {"DELIVERED", "RETURNED", "CANCELLED"}
  BY <1>4, <1>7, <1>9, <1>10, <1>11, <1>17, SettlementStutters
<1> QED
  BY <1>14, <1>15, <1>16, <1>17

\* The transaction of setBookingStatus settles or voids its booking.
LEMMA BookingSettles ==
    ASSUME MoneyTypes, LoadedIsCurrent, NEW c \in CommerceRequests,
           Money!Commerce!CommitBookingStatus(c)
    PROVE  Money!Commerce!Settlement!Next \/ UNCHANGED Money!Commerce!Settlement!vars
<1> DEFINE q == commerceReqs[c]
           entry == [store |-> q.store, type |-> "EARNING", amount |-> AmountOf[q.id],
                     ref |-> q.id, status |-> "COMPLETED"]
<1>1. /\ q \in Money!Commerce!BookingRequest /\ q.op = "booking"
      /\ q.row.status = soldBookings[q.id].status
      /\ Money!Commerce!BookingMayMove(q.row, q.status, q.reason)
  BY MoneyRequests DEF Money!Commerce!CommitBookingStatus, LoadedIsCurrent
<1>2. /\ q.id \in Bookings /\ q.id \in Orders \cup Bookings /\ q.store \in MoneyStores
      /\ q.row \in Money!Commerce!Booking
  BY <1>1 DEF Money!Commerce!BookingRequest
<1>3. /\ soldBookings'[q.id].status = q.status
      /\ \A b \in Bookings : b # q.id => soldBookings'[b] = soldBookings[b]
      /\ soldOrders' = soldOrders
  BY <1>1, <1>2 DEF Money!Commerce!CommitBookingStatus, Money!Commerce!Saved, MoneyTypes
<1>4. /\ q.status = "COMPLETED" => soldLedger' = Append(soldLedger, entry)
      /\ q.status # "COMPLETED" => soldLedger' = soldLedger
  BY DEF Money!Commerce!CommitBookingStatus, Money!Commerce!WithBookingEntry,
         Money!Commerce!WithEntry, Money!Commerce!CreateTransaction
<1>5. entry \in MoneyRow /\ entry.type = "EARNING" /\ entry.ref = q.id
  BY <1>2, SaleRowOf DEF SaleRow
<1>6. PICK x \in Bookings : x = q.id
  BY <1>2
<1>7. /\ Money!Commerce!Phase(x) = PhaseOf(q.row.status)
      /\ Money!Commerce!Phase(x)' = PhaseOf(q.status)
      /\ \A y \in Orders \cup Bookings : y # x =>
            Money!Commerce!Phase(y)' = Money!Commerce!Phase(y)
  <2>1. \A y \in Bookings : y # x => Money!Commerce!Phase(y)' = Money!Commerce!Phase(y)
    BY <1>3, <1>6, PhaseIs, PhaseIsNext
  <2>2. \A y \in Orders : Money!Commerce!Phase(y)' = Money!Commerce!Phase(y)
    BY <1>3, PhaseIs, PhaseIsNext
  <2>3. /\ Money!Commerce!Phase(x) = PhaseOf(q.row.status)
        /\ Money!Commerce!Phase(x)' = PhaseOf(q.status)
    BY <1>1, <1>3, <1>6, PhaseIs, PhaseIsNext
  <2> QED
    BY <2>1, <2>2, <2>3
<1> DEFINE rows(type, y) == Count(soldLedger', type, y) = Count(soldLedger, type, y)
<1>8. soldLedger' = Append(soldLedger, entry) =>
         /\ Count(soldLedger', "EARNING", x) = Count(soldLedger, "EARNING", x) + 1
         /\ \A y : y # x => rows("EARNING", y)
         /\ \A y : rows("REFUND", y)
  <2>1. entry \in MoneyRow /\ entry.type = "EARNING" /\ entry.ref = x
    BY <1>5, <1>6
  <2> HIDE DEF entry
  <2>2. \A u, y : Count(Append(soldLedger, entry), u, y) =
                     IF entry.type = u /\ entry.ref = y
                     THEN Count(soldLedger, u, y) + 1 ELSE Count(soldLedger, u, y)
    BY <2>1, CountAppended DEF MoneyTypes
  <2> QED
    BY <2>1, <2>2
<1>9. \A type, y : soldLedger' = soldLedger => rows(type, y)
  OBVIOUS
<1>10. PICK status, was : status = q.status /\ was = q.row.status
  OBVIOUS
<1>11. /\ PhaseOf(was) = "open"
       /\ status \notin {"COMPLETED", "CANCELLED"} => PhaseOf(status) = "open"
  BY <1>1, <1>2, <1>10, BookingPhases
<1>12. PhaseOf("COMPLETED") = "settled" /\ PhaseOf("CANCELLED") = "void"
  BY DEF PhaseOf
<1>13. x \in Money!Commerce!Sales /\ x \in Orders \cup Bookings
  BY DEF Money!Commerce!Sales
<1> HIDE DEF q, entry
<1>14. CASE status = "COMPLETED"
  <2>1. Money!Commerce!Settlement!Settle(x)
    BY <1>4, <1>7, <1>8, <1>10, <1>11, <1>12, <1>13, <1>14, SettlementSteps
  <2> QED
    BY <1>13, <2>1 DEF Money!Commerce!Settlement!Next
<1>15. CASE status = "CANCELLED"
  <2>1. Money!Commerce!Settlement!Void(x)
    BY <1>4, <1>7, <1>9, <1>10, <1>11, <1>12, <1>13, <1>15, SettlementSteps
  <2> QED
    BY <1>13, <2>1 DEF Money!Commerce!Settlement!Next
<1>16. CASE status \notin {"COMPLETED", "CANCELLED"}
  BY <1>4, <1>7, <1>9, <1>10, <1>11, <1>16, SettlementStutters
<1> QED
  BY <1>14, <1>15, <1>16

\* Everything else keeps statuses and the rows of sales as they are.
LEMMA NothingSettles ==
    ASSUME \A o \in Orders : soldOrders'[o].status = soldOrders[o].status,
           \A b \in Bookings : soldBookings'[b].status = soldBookings[b].status,
           \A x : /\ Count(soldLedger', "EARNING", x) = Count(soldLedger, "EARNING", x)
                  /\ Count(soldLedger', "REFUND", x) = Count(soldLedger, "REFUND", x)
    PROVE  UNCHANGED Money!Commerce!Settlement!vars
<1>1. \A x \in Orders \cup Bookings : Money!Commerce!Phase(x)' = Money!Commerce!Phase(x)
  BY PhaseIs, PhaseIsNext
<1> QED
  BY <1>1, SettlementStutters

\* Payouts come and go without touching the rows of sales.
LEMMA PayoutsSettleNothing ==
    ASSUME MoneyTypes, Money!WalletStep
    PROVE  \A x : /\ Count(soldLedger', "EARNING", x) = Count(soldLedger, "EARNING", x)
                  /\ Count(soldLedger', "REFUND", x) = Count(soldLedger, "REFUND", x)
<1>1. ASSUME NEW w \in WalletRequests, Money!Purse!CreateWithdrawal(w)
      PROVE  \A x : /\ Count(soldLedger', "EARNING", x) = Count(soldLedger, "EARNING", x)
                    /\ Count(soldLedger', "REFUND", x) = Count(soldLedger, "REFUND", x)
  <2>1. walletReqs[w] \in Money!Purse!WithdrawalRequest
    BY <1>1, MoneyRequests DEF Money!Purse!CreateWithdrawal
  <2>2. PICK row : row = PayoutRow(walletReqs[w])
    OBVIOUS
  <2>3. row \in MoneyRow /\ row.type = "PAYOUT" /\ soldLedger' = Append(soldLedger, row)
    BY <1>1, <2>1, <2>2, PayoutRowType, SameLedger
       DEF Money!Purse!CreateWithdrawal, Money!Purse!WithPayout, CreateTransaction, PayoutRow
  <2>4. \A u, y : Count(Append(soldLedger, row), u, y) =
                     IF row.type = u /\ row.ref = y
                     THEN Count(soldLedger, u, y) + 1 ELSE Count(soldLedger, u, y)
    BY <2>3, CountAppended DEF MoneyTypes
  <2> QED
    BY <2>3, <2>4
<1>2. ASSUME NEW to \in {"COMPLETED", "FAILED"}, Money!Purse!DecidePayout(to)
      PROVE  \A x : /\ Count(soldLedger', "EARNING", x) = Count(soldLedger, "EARNING", x)
                    /\ Count(soldLedger', "REFUND", x) = Count(soldLedger, "REFUND", x)
  <2>1. PICK i \in DOMAIN soldLedger : soldLedger' = [soldLedger EXCEPT ![i].status = to]
    BY <1>2 DEF Money!Purse!DecidePayout
  <2>2. soldLedger[i] \in MoneyRow
    BY DEF MoneyTypes
  <2>3. /\ DOMAIN soldLedger' = DOMAIN soldLedger
        /\ \A j \in DOMAIN soldLedger : /\ soldLedger'[j].type = soldLedger[j].type
                                        /\ soldLedger'[j].ref = soldLedger[j].ref
    BY <2>1, <2>2 DEF MoneyRow, WalletTransaction
  <2>4. \A type, x : RowsFor(soldLedger', type, x) = RowsFor(soldLedger, type, x)
    BY <2>3 DEF RowsFor
  <2> QED
    BY <2>4 DEF Count
<1>3. ASSUME soldLedger' = soldLedger
      PROVE  \A x : /\ Count(soldLedger', "EARNING", x) = Count(soldLedger, "EARNING", x)
                    /\ Count(soldLedger', "REFUND", x) = Count(soldLedger, "REFUND", x)
  BY <1>3
<1> QED
  BY <1>1, <1>2, <1>3
     DEF Money!WalletStep, Money!Purse!Next, Money!Purse!AddPayoutAccount,
         Money!Purse!CommitPayoutAccount, Money!Purse!RequestWithdrawal,
         Money!Purse!CheckBalance, Money!Purse!Fail

LEMMA SettlementStep ==
    MoneyTypes /\ LoadedIsCurrent /\ [Money!Next]_(Money!vars)
        => [Money!Commerce!Settlement!Next]_(Money!Commerce!Settlement!vars)
<1> SUFFICES ASSUME MoneyTypes, LoadedIsCurrent, [Money!Next]_(Money!vars)
             PROVE  Money!Commerce!Settlement!Next \/ UNCHANGED Money!Commerce!Settlement!vars
  OBVIOUS
<1>1. CASE UNCHANGED Money!vars
  BY <1>1, NothingSettles DEF Money!vars, Money!commerceVars
<1>2. CASE Money!WalletStep
  BY <1>2, NothingSettles, PayoutsSettleNothing DEF Money!WalletStep, Money!commerceVars
<1>3. ASSUME NEW c \in CommerceRequests, Money!Commerce!CommitReschedule(c)
      PROVE  UNCHANGED Money!Commerce!Settlement!vars
  <2>1. commerceReqs[c] \in Money!Commerce!RescheduleRequest
    BY <1>3, MoneyRequests DEF Money!Commerce!CommitReschedule
  <2>2. \A b \in Bookings : soldBookings'[b].status = soldBookings[b].status
    BY <1>3, <2>1 DEF Money!Commerce!CommitReschedule, Money!Commerce!RescheduleRequest,
                      Money!Commerce!Booking, MoneyTypes
  <2> QED
    BY <1>3, <2>2, NothingSettles DEF Money!Commerce!CommitReschedule
<1>4. ASSUME NEW c \in CommerceRequests,
             \/ \E s \in MoneyStores, o \in Orders, status \in Money!Commerce!OrderStatus,
                   reason \in Money!Commerce!Reason :
                   Money!Commerce!SetOrderStatus(c, s, o, status, reason)
             \/ \E s \in MoneyStores, b \in Bookings, status \in Money!Commerce!BookingStatus,
                   reason \in Money!Commerce!Reason :
                   Money!Commerce!SetBookingStatus(c, s, b, status, reason)
             \/ \E s \in MoneyStores, b \in Bookings, slot \in MoneySlots :
                   Money!Commerce!RescheduleBooking(c, s, b, slot)
             \/ Money!Commerce!Fail(c)
      PROVE  UNCHANGED Money!Commerce!Settlement!vars
  <2>1. UNCHANGED <<soldOrders, soldBookings, soldLedger>>
    BY <1>4 DEF Money!Commerce!SetOrderStatus, Money!Commerce!SetBookingStatus,
                Money!Commerce!RescheduleBooking, Money!Commerce!Fail
  <2> QED
    BY <2>1, NothingSettles
<1>5. CASE Money!CommerceStep
  <2>1. Money!Commerce!Next
    BY <1>5 DEF Money!CommerceStep
  <2> QED
    BY <1>3, <1>4, <2>1, OrderSettles, BookingSettles DEF Money!Commerce!Next
<1> QED
  BY <1>1, <1>2, <1>5 DEF Money!Next

LEMMA SettlementStart == Money!Init => LoadedIsCurrent /\ Money!Commerce!Settlement!Init
<1> SUFFICES ASSUME Money!Init PROVE LoadedIsCurrent /\ Money!Commerce!Settlement!Init
  OBVIOUS
<1>1. Money!Commerce!Init
  BY DEF Money!Init
<1>2. LoadedIsCurrent
  BY <1>1 DEF Money!Commerce!Init, LoadedIsCurrent, Money!Commerce!Idle
<1>3. \A x \in Orders \cup Bookings : Money!Commerce!Phase(x) = "open"
  BY <1>1, PhaseIs DEF Money!Commerce!Init, PhaseOf
<1>4. \A type, x : Count(soldLedger, type, x) = 0
  <2>1. \A type, x : RowsFor(soldLedger, type, x) = {}
    BY <1>1 DEF Money!Commerce!Init, RowsFor
  <2> QED
    BY <2>1, FS_EmptySet DEF Count
<1> QED
  BY <1>2, <1>3, <1>4, SettlementState DEF Money!Commerce!Settlement!Init, Money!Commerce!Sales

\* What the ledger says of a sale is what its status says: an EARNING once it was
\* settled, a REFUND once that was reversed, and neither twice.
LedgerMatchesSales ==
    \A x \in Orders \cup Bookings :
        /\ Count(soldLedger, "EARNING", x) =
              IF Money!Commerce!Phase(x) \in {"settled", "reversed"} THEN 1 ELSE 0
        /\ Count(soldLedger, "REFUND", x) =
              IF Money!Commerce!Phase(x) = "reversed" THEN 1 ELSE 0

\* It follows from SaleSettlement alone.
LEMMA LedgerMatchesStep ==
    LedgerMatchesSales
    /\ [Money!Commerce!Settlement!Next]_(Money!Commerce!Settlement!vars)
        => LedgerMatchesSales'
<1> SUFFICES ASSUME LedgerMatchesSales,
                    [Money!Commerce!Settlement!Next]_(Money!Commerce!Settlement!vars)
             PROVE  LedgerMatchesSales'
  OBVIOUS
<1>0. Money!Commerce!Sales = Orders \cup Bookings /\ Money!Commerce!Sales' = Orders \cup Bookings
  BY DEF Money!Commerce!Sales
<1> DEFINE Phases == \A y \in Orders \cup Bookings :
                         Money!Commerce!Phase(y)' = Money!Commerce!Phase(y)
           Kept(type) == \A y \in Orders \cup Bookings :
                             Count(soldLedger', type, y) = Count(soldLedger, type, y)
           MovedTo(x, phase) ==
               \A y \in Orders \cup Bookings : Money!Commerce!Phase(y)' =
                   IF y = x THEN phase ELSE Money!Commerce!Phase(y)
           Added(x, type) ==
               \A y \in Orders \cup Bookings : Count(soldLedger', type, y) =
                   IF y = x THEN Count(soldLedger, type, y) + 1
                            ELSE Count(soldLedger, type, y)
<1>1. CASE UNCHANGED Money!Commerce!Settlement!vars
  <2>1. Phases /\ Kept("EARNING") /\ Kept("REFUND")
    BY <1>0, <1>1, SettlementState, SettlementStateNext DEF Money!Commerce!Settlement!vars
  <2> QED
    BY <2>1 DEF LedgerMatchesSales
<1>2. ASSUME NEW x \in Orders \cup Bookings, Money!Commerce!Settlement!Settle(x)
      PROVE  LedgerMatchesSales'
  <2>1. /\ Money!Commerce!Phase(x) = "open" /\ MovedTo(x, "settled")
        /\ Added(x, "EARNING") /\ Kept("REFUND")
    BY <1>0, <1>2, SettlementState, SettlementStateNext DEF Money!Commerce!Settlement!Settle
  <2> QED
    BY <2>1 DEF LedgerMatchesSales
<1>3. ASSUME NEW x \in Orders \cup Bookings, Money!Commerce!Settlement!Void(x)
      PROVE  LedgerMatchesSales'
  <2>1. /\ Money!Commerce!Phase(x) = "open" /\ MovedTo(x, "void")
        /\ Kept("EARNING") /\ Kept("REFUND")
    BY <1>0, <1>3, SettlementState, SettlementStateNext DEF Money!Commerce!Settlement!Void
  <2> QED
    BY <2>1 DEF LedgerMatchesSales
<1>4. ASSUME NEW x \in Orders \cup Bookings, Money!Commerce!Settlement!Reverse(x)
      PROVE  LedgerMatchesSales'
  <2>1. /\ Money!Commerce!Phase(x) = "settled" /\ MovedTo(x, "reversed")
        /\ Kept("EARNING") /\ Added(x, "REFUND")
    BY <1>0, <1>4, SettlementState, SettlementStateNext DEF Money!Commerce!Settlement!Reverse
  <2> QED
    BY <2>1 DEF LedgerMatchesSales
<1> QED
  BY <1>0, <1>1, <1>2, <1>3, <1>4 DEF Money!Commerce!Settlement!Next

LEMMA LedgerMatchesStart == Money!Init => LedgerMatchesSales
<1> SUFFICES ASSUME Money!Init PROVE LedgerMatchesSales
  OBVIOUS
<1>1. Money!Commerce!Init
  BY DEF Money!Init
<1>2. \A x \in Orders \cup Bookings : Money!Commerce!Phase(x) = "open"
  BY <1>1, PhaseIs DEF Money!Commerce!Init, PhaseOf
<1>3. \A type, x : RowsFor(soldLedger, type, x) = {}
  BY <1>1 DEF Money!Commerce!Init, RowsFor
<1> QED
  BY <1>2, <1>3, FS_EmptySet DEF LedgerMatchesSales, Count

\* A sale with one EARNING row at most was paid once at most.
LEMMA OneRowIsPaidOnce ==
    MoneyTypes /\ LedgerMatchesSales => Money!Commerce!EarnedAtMostOnce
<1> SUFFICES ASSUME MoneyTypes, LedgerMatchesSales, NEW x \in Orders \cup Bookings,
                    NEW i \in RowsFor(soldLedger, "EARNING", x),
                    NEW j \in RowsFor(soldLedger, "EARNING", x)
             PROVE  i = j
  BY SettlementState, SameLedger DEF Money!Commerce!EarnedAtMostOnce
<1> DEFINE T == RowsFor(soldLedger, "EARNING", x)
<1>1. IsFiniteSet(T)
  <2>1. DOMAIN soldLedger = 1 .. Len(soldLedger) /\ Len(soldLedger) \in Nat
    BY DEF MoneyTypes
  <2>2. T \subseteq DOMAIN soldLedger
    BY DEF RowsFor
  <2>3. IsFiniteSet(DOMAIN soldLedger)
    BY <2>1, FS_Interval
  <2> QED
    BY <2>2, <2>3, FS_Subset
<1>2. Cardinality(T) = 1 \/ Cardinality(T) = 0
  BY DEF LedgerMatchesSales, Count
<1>3. i \in T /\ j \in T
  OBVIOUS
<1> HIDE DEF T
<1>4. T # {}
  BY <1>3
<1>5. Cardinality(T) # 0
  BY <1>1, <1>4, FS_EmptySet
<1>6. PICK y : T = {y}
  BY <1>1, <1>2, <1>5, FS_Singleton
<1> QED
  BY <1>3, <1>6

----------------------------------------------------------------------------
(* Withdrawals in turn never overdraw *)

PurseRow == WalletTransaction(Stores, PurseRefs)

\* The balance computeSummary derives from a ledger.
Available(L, s) == SumByTypeAndStatus(L, s, "EARNING", "COMPLETED")
                     - SumByTypeAndStatus(L, s, "PAYOUT", "COMPLETED")
                     - SumByTypeAndStatus(L, s, "REFUND", "COMPLETED")
                     - SumByTypeAndStatus(L, s, "PAYOUT", "PENDING")

LEMMA AvailableType ==
    ASSUME NEW L \in Seq(PurseRow), NEW s
    PROVE  Available(L, s) \in Int
<1>1. \A type, status : SumByTypeAndStatus(L, s, type, status) \in Nat
  BY SumType DEF PurseRow
<1> QED
  BY <1>1 DEF Available

\* A requested payout is taken from its store's balance.
LEMMA AvailableAppended ==
    ASSUME NEW L \in Seq(PurseRow), NEW row \in PurseRow,
           row.type = "PAYOUT", row.status = "PENDING", NEW s
    PROVE  Available(Append(L, row), s) =
              Available(L, s) - (IF row.store = s THEN row.amount ELSE 0)
<1>1. row.amount \in Nat
  BY DEF PurseRow, WalletTransaction
<1>2. \A type, status : SumByTypeAndStatus(L, s, type, status) \in Nat
  BY SumType DEF PurseRow
<1>3. \A type, status :
          SumByTypeAndStatus(Append(L, row), s, type, status) =
             SumByTypeAndStatus(L, s, type, status)
               + (IF row.store = s /\ row.type = type /\ row.status = status
                  THEN row.amount ELSE 0)
  BY SumAppended DEF PurseRow
<1>4. /\ SumByTypeAndStatus(Append(L, row), s, "EARNING", "COMPLETED")
            = SumByTypeAndStatus(L, s, "EARNING", "COMPLETED") + 0
      /\ SumByTypeAndStatus(Append(L, row), s, "PAYOUT", "COMPLETED")
            = SumByTypeAndStatus(L, s, "PAYOUT", "COMPLETED") + 0
      /\ SumByTypeAndStatus(Append(L, row), s, "REFUND", "COMPLETED")
            = SumByTypeAndStatus(L, s, "REFUND", "COMPLETED") + 0
      /\ SumByTypeAndStatus(Append(L, row), s, "PAYOUT", "PENDING")
            = SumByTypeAndStatus(L, s, "PAYOUT", "PENDING")
                + (IF row.store = s THEN row.amount ELSE 0)
  BY <1>3
<1> QED
  BY <1>1, <1>2, <1>4 DEF Available

\* Finance never takes from a balance.
LEMMA AvailableMoves ==
    ASSUME NEW L \in Seq(PurseRow), NEW M \in Seq(PurseRow), NEW i \in DOMAIN L,
           L[i].type = "PAYOUT", L[i].status = "PENDING",
           NEW to \in {"COMPLETED", "FAILED"}, Moves(L, i, to, M), NEW s
    PROVE  Available(L, s) <= Available(M, s)
<1> DEFINE a == IF L[i].store = s THEN L[i].amount ELSE 0
           b == IF to = "COMPLETED" THEN a ELSE 0
<1>1. L[i] \in PurseRow
  OBVIOUS
<1>2. a \in Nat /\ b \in Nat /\ b <= a
  BY <1>1 DEF PurseRow, WalletTransaction
<1>3. /\ SumByTypeAndStatus(L, s, "EARNING", "COMPLETED") \in Nat
      /\ SumByTypeAndStatus(M, s, "EARNING", "COMPLETED") \in Nat
      /\ SumByTypeAndStatus(L, s, "PAYOUT", "COMPLETED") \in Nat
      /\ SumByTypeAndStatus(M, s, "PAYOUT", "COMPLETED") \in Nat
      /\ SumByTypeAndStatus(L, s, "REFUND", "COMPLETED") \in Nat
      /\ SumByTypeAndStatus(M, s, "REFUND", "COMPLETED") \in Nat
      /\ SumByTypeAndStatus(L, s, "PAYOUT", "PENDING") \in Nat
      /\ SumByTypeAndStatus(M, s, "PAYOUT", "PENDING") \in Nat
  BY SumType DEF PurseRow
<1>4. SumByTypeAndStatus(M, s, "EARNING", "COMPLETED")
          = SumByTypeAndStatus(L, s, "EARNING", "COMPLETED")
<2>1. SumByTypeAndStatus(M, s, "EARNING", "COMPLETED") + 0
          = SumByTypeAndStatus(L, s, "EARNING", "COMPLETED") + 0
  BY DEF Moves
<2> QED
  BY <2>1, <1>3
<1>5. SumByTypeAndStatus(M, s, "PAYOUT", "COMPLETED") + 0
          = SumByTypeAndStatus(L, s, "PAYOUT", "COMPLETED") + b
  BY DEF Moves
<1>6. SumByTypeAndStatus(M, s, "PAYOUT", "PENDING") + a
          = SumByTypeAndStatus(L, s, "PAYOUT", "PENDING") + 0
  BY DEF Moves
<1>7. SumByTypeAndStatus(M, s, "REFUND", "COMPLETED")
          = SumByTypeAndStatus(L, s, "REFUND", "COMPLETED")
<2>1. SumByTypeAndStatus(M, s, "REFUND", "COMPLETED") + 0
          = SumByTypeAndStatus(L, s, "REFUND", "COMPLETED") + 0
  BY DEF Moves
<2> QED
  BY <2>1, <1>3
<1> HIDE DEF a, b
<1>8. SumByTypeAndStatus(M, s, "PAYOUT", "COMPLETED")
          = SumByTypeAndStatus(L, s, "PAYOUT", "COMPLETED") + b
  BY <1>3, <1>5, <1>2
<1>9. SumByTypeAndStatus(L, s, "PAYOUT", "PENDING")
          = SumByTypeAndStatus(M, s, "PAYOUT", "PENDING") + a
  BY <1>3, <1>6, <1>2
<1>10. Available(M, s) = Available(L, s) + (a - b)
  BY <1>2, <1>3, <1>4, <1>7, <1>8, <1>9 DEF Available
<1>11. Available(L, s) \in Int
  BY AvailableType
<1> QED
  BY <1>2, <1>10, <1>11

LEMMA PurseFigures ==
    /\ \A S, R : Purse!WalletTransaction(S, R) = WalletTransaction(S, R)
    /\ \A L, store, type, amount, ref, status :
          Purse!CreateTransaction(L, store, type, amount, ref, status)
              = CreateTransaction(L, store, type, amount, ref, status)
    /\ \A s : Purse!AvailableBalance(s) = Available(purseLedger, s)
<1>1. \A L, s, type, status :
          Purse!SumByTypeAndStatus(L, s, type, status) = SumByTypeAndStatus(L, s, type, status)
  BY DEF Purse!SumByTypeAndStatus, SumByTypeAndStatus, Purse!MapThenSumSet,
         MapThenSumSet, Purse!MapThenFoldSet, MapThenFoldSet
<1>2. \A s : Purse!AvailableBalance(s) = Available(purseLedger, s)
  BY <1>1 DEF Purse!AvailableBalance, Purse!Earned, Purse!PaidOut, Purse!Refunded,
              Purse!PayoutInFlight, Available
<1> QED
  BY <1>2 DEF Purse!WalletTransaction, WalletTransaction, Purse!WalletTransactionType,
              WalletTransactionType, Purse!WalletTransactionStatus, WalletTransactionStatus,
              Purse!CreateTransaction, CreateTransaction

\* No balance is below zero, and the withdrawal that has passed its check will
\* not bring it there.
Solvent(L, R) ==
    /\ \A s \in Stores : Available(L, s) >= 0
    /\ \A r \in PurseRequests : R[r].op = "create" =>
          R[r].amount <= Available(L, R[r].store)

LEMMA SolventStep ==
    Purse!TypeOK /\ Solvent(purseLedger, purseReqs) /\ PurseInTurn
    /\ [Purse!Next]_(Purse!vars)
        => Solvent(purseLedger, purseReqs)'
<1> SUFFICES ASSUME Purse!TypeOK, Solvent(purseLedger, purseReqs), PurseInTurn,
                    [Purse!Next]_(Purse!vars)
             PROVE  Solvent(purseLedger', purseReqs')
  OBVIOUS
<1>0. purseLedger \in Seq(PurseRow)
  BY PurseFigures DEF Purse!TypeOK, PurseRow, PurseRefs
<1>a. \A s : Available(purseLedger, s) \in Int
  BY <1>0, AvailableType
\* Requests that neither add a row nor pass the check.
<1>1. ASSUME purseLedger' = purseLedger,
             \A r \in PurseRequests : purseReqs'[r].op = "create" =>
                 purseReqs'[r] = purseReqs[r]
      PROVE  Solvent(purseLedger', purseReqs')
  <2>1. \A r \in PurseRequests : purseReqs'[r].op = "create" =>
            purseReqs'[r].amount <= Available(purseLedger, purseReqs'[r].store)
    BY <1>1 DEF Solvent
  <2> QED
    BY <1>1, <2>1 DEF Solvent
<1>2. ASSUME NEW r \in PurseRequests, Purse!CheckBalance(r)
      PROVE  Solvent(purseLedger', purseReqs')
  <2>1. purseReqs[r] \in Purse!WithdrawalRequest
    BY <1>2, PurseRequestFields DEF Purse!CheckBalance
  <2>2. purseReqs[r].amount <= Available(purseLedger, purseReqs[r].store)
    BY <1>2, PurseFigures DEF Purse!CheckBalance
  <2>3. /\ purseLedger' = purseLedger
        /\ \A v \in PurseRequests : v # r => purseReqs'[v] = purseReqs[v]
        /\ purseReqs'[r].amount = purseReqs[r].amount
        /\ purseReqs'[r].store = purseReqs[r].store
    <3>1. /\ [purseReqs[r] EXCEPT !.op = "create"].amount = purseReqs[r].amount
          /\ [purseReqs[r] EXCEPT !.op = "create"].store = purseReqs[r].store
      BY <2>1 DEF Purse!WithdrawalRequest
    <3> QED
      BY <1>2, <3>1 DEF Purse!CheckBalance, Purse!TypeOK
  <2>4. \A v \in PurseRequests : purseReqs'[v].op = "create" =>
            purseReqs'[v].amount <= Available(purseLedger, purseReqs'[v].store)
    BY <2>2, <2>3 DEF Solvent
  <2> QED
    BY <2>3, <2>4 DEF Solvent
<1>3. ASSUME NEW r \in PurseRequests, Purse!CreateWithdrawal(r)
      PROVE  Solvent(purseLedger', purseReqs')
  <2> DEFINE q == purseReqs[r]
  <2>1. q.op = "create" /\ q.store \in Stores /\ q.amount \in Nat /\ q.account \in PurseRefs
    BY <1>3, PurseRequestFields DEF Purse!CreateWithdrawal, PurseRefs
  <2>2. PICK row : row = [store |-> q.store, type |-> "PAYOUT", amount |-> q.amount,
                          ref |-> q.account, status |-> "PENDING"]
    OBVIOUS
  <2>3. /\ row \in PurseRow /\ row.store = q.store /\ row.amount = q.amount
        /\ row.type = "PAYOUT" /\ row.status = "PENDING"
    BY <2>1, <2>2 DEF PurseRow, WalletTransaction, WalletTransactionType,
                      WalletTransactionStatus
  <2>4. purseLedger' = Append(purseLedger, row)
    BY <1>3, <2>2, PurseFigures DEF Purse!CreateWithdrawal, Purse!WithPayout, CreateTransaction
  <2>5. row.amount \in Nat /\ row.store \in Stores
        /\ row.amount <= Available(purseLedger, row.store)
    BY <2>1, <2>3 DEF Solvent
  <2>6. \A s : Available(purseLedger', s) =
                  Available(purseLedger, s) - (IF row.store = s THEN row.amount ELSE 0)
    BY <1>0, <2>3, <2>4, AvailableAppended
  <2>7. \A s \in Stores : Available(purseLedger', s) >= 0
    BY <1>a, <2>5, <2>6 DEF Solvent
  <2>8. ASSUME NEW v \in PurseRequests, purseReqs'[v].op = "create"
        PROVE  purseReqs'[v].amount <= Available(purseLedger', purseReqs'[v].store)
    <3>1. purseReqs' = [purseReqs EXCEPT ![r] = Purse!Idle]
      BY <1>3 DEF Purse!CreateWithdrawal
    <3>2. v # r /\ purseReqs'[v] = purseReqs[v] /\ purseReqs[v].op = "create"
      BY <2>8, <3>1 DEF Purse!Idle, Purse!TypeOK
    <3>3. purseReqs[v].store # row.store
      BY <2>1, <2>3, <3>2 DEF PurseInTurn
    <3> DEFINE t == purseReqs[v].store
    <3>4. t # row.store /\ purseReqs'[v].store = t
          /\ purseReqs'[v].amount <= Available(purseLedger, t)
      BY <3>2, <3>3 DEF Solvent
    <3> HIDE DEF t
    <3>5. Available(purseLedger', t) = Available(purseLedger, t)
      <4>1. Available(purseLedger', t) = Available(purseLedger, t) - 0
        BY <2>6, <3>4
      <4> QED
        BY <1>a, <4>1
    <3> QED
      BY <3>4, <3>5
  <2> QED
    BY <2>7, <2>8 DEF Solvent
<1>4. ASSUME NEW to \in {"COMPLETED", "FAILED"}, Purse!DecidePayout(to)
      PROVE  Solvent(purseLedger', purseReqs')
  <2>1. PICK i \in DOMAIN purseLedger :
            /\ purseLedger[i].type = "PAYOUT" /\ purseLedger[i].status = "PENDING"
            /\ purseLedger' = [purseLedger EXCEPT ![i].status = to]
    BY <1>4 DEF Purse!DecidePayout
  <2>2. Moves(purseLedger, i, to, purseLedger')
    BY <1>0, <2>1, SumMoved DEF PurseRow, WalletTransactionStatus
  <2>3. purseLedger' \in Seq(PurseRow)
    <3>1. purseLedger[i] \in PurseRow
      BY <1>0
    <3>2. [purseLedger[i] EXCEPT !.status = to] \in PurseRow
      BY <3>1 DEF PurseRow, WalletTransaction, WalletTransactionStatus
    <3> QED
      BY <1>0, <2>1, <3>2
  <2>4. purseReqs' = purseReqs
    BY <1>4 DEF Purse!DecidePayout
  <2>5. /\ \A s : Available(purseLedger, s) <= Available(purseLedger', s)
        /\ \A s : Available(purseLedger', s) \in Int
    BY <1>0, <2>1, <2>2, <2>3, AvailableMoves, AvailableType
  <2>6. \A s \in Stores : Available(purseLedger', s) >= 0
    BY <1>a, <2>5 DEF Solvent
  <2>7. ASSUME NEW v \in PurseRequests, purseReqs[v].op = "create"
        PROVE  purseReqs[v].amount <= Available(purseLedger', purseReqs[v].store)
    <3> DEFINE a == purseReqs[v].amount
               t == purseReqs[v].store
    <3>1. a \in Nat /\ a <= Available(purseLedger, t)
      BY <2>7, PurseRequestFields DEF Solvent
    <3> HIDE DEF a, t
    <3>2. a <= Available(purseLedger', t)
      BY <1>a, <2>5, <3>1
    <3> QED
      BY <3>2 DEF a, t
  <2> QED
    BY <2>4, <2>6, <2>7 DEF Solvent
<1>5. ASSUME NEW r \in PurseRequests,
             \/ \E s \in Stores, isDefault \in BOOLEAN : Purse!AddPayoutAccount(r, s, isDefault)
             \/ \E id \in PurseAccounts : Purse!CommitPayoutAccount(r, id)
             \/ \E s \in Stores, amount \in Amounts : Purse!RequestWithdrawal(r, s, amount)
             \/ Purse!Fail(r)
      PROVE  Solvent(purseLedger', purseReqs')
  <2>1. purseLedger' = purseLedger
    BY <1>5 DEF Purse!AddPayoutAccount, Purse!CommitPayoutAccount, Purse!RequestWithdrawal,
                Purse!Fail
  <2>2. \E q : q.op # "create" /\ purseReqs' = [purseReqs EXCEPT ![r] = q]
    BY <1>5 DEF Purse!AddPayoutAccount, Purse!CommitPayoutAccount, Purse!RequestWithdrawal,
                Purse!Fail, Purse!Idle
  <2>3. \A v \in PurseRequests : purseReqs'[v].op = "create" => purseReqs'[v] = purseReqs[v]
    BY <2>2 DEF Purse!TypeOK
  <2> QED
    BY <1>1, <2>1, <2>3
<1>6. CASE UNCHANGED Purse!vars
  BY <1>1, <1>6 DEF Purse!vars
<1> QED
  BY <1>2, <1>3, <1>4, <1>5, <1>6 DEF Purse!Next

----------------------------------------------------------------------------
(* What PartnerSales keeps *)

\* The tables of commerce and of the wallet hold what they can hold.
THEOREM TypesCorrect == AllSpec => []TypesOK
<1>1. TypeOK /\ PurseInv => TypesOK
  BY DEF PurseInv, TypesOK
<1> QED
  BY <1>1, AllParts, TypeCorrect, PurseAlways, PTL

\* wallet.service.js: however many devices add payout accounts at the same
\* time, a store that has any has exactly one default.
THEOREM OneDefaultAlways == AllSpec => []OneDefaultPerStore
<1>1. PurseInv => OneDefaultPerStore
  BY DEF PurseInv, OneDefaultPerStore
<1> QED
  BY <1>1, AllParts, PurseAlways, PTL

\* Commerce and wallet beside each other, for any number of requests: while no
\* two withdrawals of one store overlap, what a store was paid or asked for is
\* covered by what it earned, whatever is delivered, returned or decided between
\* the check of a withdrawal and its row.
THEOREM PayoutsAlwaysCovered ==
    AllSpec /\ []WithdrawalsInTurn => []PayoutsCoveredByEarnings
<1>1. MoneyInv => PayoutsCoveredByEarnings
  BY SameLedger
     DEF MoneyInv, Covered, Spent, Gained, PayoutsCoveredByEarnings,
         Money!PayoutsCoveredByEarnings, Money!Purse!PaidOut, Money!Purse!PayoutInFlight,
         Money!Purse!Earned
<1> QED
  BY <1>1, AllParts, MoneyAlways, PTL

\* Commerce and wallet beside each other, for any number of requests: while no two
\* requests for one sale overlap, the services implement SaleSettlement: every step
\* settles, voids or reverses one sale with its one row, or none.
THEOREM SettlementIsImplemented == AllSpec /\ []SalesInTurn => SettlementWithPayouts
<1>1. Money!Spec /\ []SalesInTurn => []LoadedIsCurrent
  BY SettlementStart, LoadedStep, MoneyTypesAlways, PTL DEF Money!Spec
<1>2. Money!Spec /\ []SalesInTurn => Money!Commerce!Settlement!Spec
  BY <1>1, SettlementStart, SettlementStep, MoneyTypesAlways, PTL
     DEF Money!Spec, Money!Commerce!Settlement!Spec
<1> QED
  BY <1>2, AllParts, PTL
     DEF SettlementWithPayouts, Money!ImplementsSettlement, Money!Commerce!ImplementsSettlement

\* Then the ledger says of every sale what its status says, and no sale is paid
\* twice: overlapping requests for one sale are all that EarnedAtMostOnce fails for.
THEOREM PaidOnceInTurn ==
    AllSpec /\ []SalesInTurn => [](LedgerMatchesSales /\ Money!Commerce!EarnedAtMostOnce)
<1>1. Money!Spec /\ []SalesInTurn => []LoadedIsCurrent
  BY SettlementStart, LoadedStep, MoneyTypesAlways, PTL DEF Money!Spec
<1>2. Money!Spec /\ []SalesInTurn => []LedgerMatchesSales
  BY <1>1, LedgerMatchesStart, LedgerMatchesStep, SettlementStep, MoneyTypesAlways, PTL
     DEF Money!Spec
<1> QED
  BY <1>2, OneRowIsPaidOnce, MoneyTypesAlways, AllParts, PTL

\* The wallet alone, for any number of requests: while no two withdrawals of one
\* store overlap, no balance that starts at or above zero falls below it.
\* Overlapping withdrawals are all that NeverOverdrawn fails for.
THEOREM NeverOverdrawnInTurn ==
    AllSpec /\ NeverOverdrawn /\ []PurseInTurn => []NeverOverdrawn
<1>1. NeverOverdrawn <=> \A s \in Stores : Available(purseLedger, s) >= 0
  BY PurseFigures DEF NeverOverdrawn, Purse!NeverOverdrawn
<1>2. Purse!Init /\ NeverOverdrawn => Solvent(purseLedger, purseReqs)
  BY <1>1 DEF Purse!Init, Purse!Idle, Solvent
<1>3. Solvent(purseLedger, purseReqs) => NeverOverdrawn
  BY <1>1 DEF Solvent
<1>4. PurseInv => Purse!TypeOK
  BY DEF PurseInv
<1>5. Purse!Spec /\ NeverOverdrawn /\ []PurseInTurn => []Solvent(purseLedger, purseReqs)
  BY <1>2, <1>4, SolventStep, PurseAlways, PTL DEF Purse!Spec
<1> QED
  BY <1>3, <1>5, AllParts, PTL

============================================================================
