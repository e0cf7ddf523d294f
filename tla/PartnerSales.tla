---------------------------- MODULE PartnerSales ----------------------------
(***************************************************************************)
(* A partner's sales and what they pay for: orders and bookings under      *)
(* overlapping requests, the same with payouts beside them on one ledger,  *)
(* and the wallet alone under overlapping requests.  The three are separate*)
(* instances with tables of their own: instead of their product, a         *)
(* behaviour exercises one of them, the one named by focus.                *)
(*                                                                         *)
(* In Money, what the settlement and the payouts promise is promised while *)
(* SalesInTurn and WithdrawalsInTurn hold.  What requests for the same sale*)
(* or the same balance do to them when they overlap is shown by            *)
(* EarnedAtMostOnce and NeverOverdrawn, which fail.                        *)
(***************************************************************************)
EXTENDS PartnerCommerce

CONSTANTS
    MoneyStores, MoneyStoreOf, MoneyReasons, MoneySlots, MoneyAccounts, \* Money
    CommerceRequests, WalletRequests, Amounts, MinimumWithdrawal, MaxRows,
    PurseSales, PurseOpening, PurseAccounts, PurseRequests, MaxPurseRows \* Purse

VARIABLES
    focus,
    soldOrders, soldBookings, soldLedger, payoutAccounts, commerceReqs, walletReqs,
    purseLedger, purseAccounts, purseReqs

\* A partner asks for a number of rupees.
ASSUME AmountsAssumption == Amounts \subseteq Nat

ASSUME MoneyAssumption ==
    /\ MoneyStoreOf \in [Orders \cup Bookings -> MoneyStores]
    /\ NoReason \notin MoneyReasons

ASSUME PurseAssumption ==
    PurseOpening \in Seq(WalletTransaction(Stores, PurseSales \cup PurseAccounts))

Money == INSTANCE PartnerMoney WITH
    Stores <- MoneyStores, StoreOf <- MoneyStoreOf, Accounts <- MoneyAccounts,
    Reasons <- MoneyReasons, Slots <- MoneySlots,
    orders <- soldOrders, bookings <- soldBookings, ledger <- soldLedger

Purse == INSTANCE Wallet WITH
    Sales <- PurseSales, Opening <- PurseOpening,
    Accounts <- PurseAccounts, Requests <- PurseRequests, MaxRows <- MaxPurseRows,
    ledger <- purseLedger, payoutAccounts <- purseAccounts, reqs <- purseReqs

moneyVars == <<soldOrders, soldBookings, soldLedger, payoutAccounts, commerceReqs, walletReqs>>
purseVars == <<purseLedger, purseAccounts, purseReqs>>
allVars   == <<vars, moneyVars, purseVars, focus>>

AllInit ==
    /\ focus \in {"commerce", "money", "purse"}
    /\ Init /\ Money!Init /\ Purse!Init

AllNext ==
    /\ UNCHANGED focus
    /\ \/ focus = "commerce" /\ Next       /\ UNCHANGED <<moneyVars, purseVars>>
       \/ focus = "money"    /\ Money!Next /\ UNCHANGED <<vars, purseVars>>
       \/ focus = "purse"    /\ Purse!Next /\ UNCHANGED <<vars, moneyVars>>

AllSpec == AllInit /\ [][AllNext]_allVars

----------------------------------------------------------------------------
(* Properties *)

\* The tables of commerce and of the purse hold what they can hold.
TypesOK == TypeOK /\ Purse!TypeOK

\* Money: no two requests in flight move the same sale.
SalesInTurn ==
    \A c, d \in CommerceRequests :
        /\ commerceReqs[c].op \in {"order", "booking"}
        /\ commerceReqs[d].op \in {"order", "booking"}
        /\ commerceReqs[c].id = commerceReqs[d].id
        => c = d

\* Money: no two withdrawals in flight are of the same store.
WithdrawalsInTurn ==
    \A v, w \in WalletRequests :
        /\ walletReqs[v].op \in {"sum", "create"}
        /\ walletReqs[w].op \in {"sum", "create"}
        /\ walletReqs[v].store = walletReqs[w].store
        => v = w

\* Purse: no two withdrawals in flight are of the same store.
PurseInTurn ==
    \A v, w \in PurseRequests :
        /\ purseReqs[v].op \in {"sum", "create"}
        /\ purseReqs[w].op \in {"sum", "create"}
        /\ purseReqs[v].store = purseReqs[w].store
        => v = w

\* Money: a store is never paid out more than its sales earned.
PayoutsCoveredByEarnings == Money!PayoutsCoveredByEarnings

\* Money: the services implement SaleSettlement.
SettlementWithPayouts == Money!ImplementsSettlement

\* Purse: a store with payout accounts has exactly one default among them.
OneDefaultPerStore == Purse!OneDefaultPerStore

\* Purse: "two withdrawals in quick succession cannot together overdraw".
NeverOverdrawn == Purse!NeverOverdrawn

=============================================================================
