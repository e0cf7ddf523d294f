---------------------------- MODULE PartnerMoney ----------------------------
(***************************************************************************)
(* Commerce and wallet on one ledger: what PartnerCommerce earns and       *)
(* refunds is what Wallet pays out.  Each keeps its own requests in flight;*)
(* they meet in wallet_transactions alone.                                 *)
(***************************************************************************)
EXTENDS WalletLedger

CONSTANTS
    Stores, Orders, Bookings, StoreOf, AmountOf, Reasons, NoReason, Slots,
    CommerceRequests, Accounts, Amounts, MinimumWithdrawal, WalletRequests, MaxRows

VARIABLES orders, bookings, ledger, payoutAccounts, commerceReqs, walletReqs

commerceVars == <<orders, bookings, commerceReqs>>
walletVars   == <<payoutAccounts, walletReqs>>
vars         == <<commerceVars, ledger, walletVars>>

Commerce == INSTANCE PartnerCommerce WITH
    Requests <- CommerceRequests, reqs <- commerceReqs

Purse == INSTANCE Wallet WITH
    Requests <- WalletRequests, reqs <- walletReqs,
    Sales <- Orders \cup Bookings, Opening <- <<>>

Init == Commerce!Init /\ Purse!Init

\* A step of commerce.service.js.
CommerceStep == Commerce!Next /\ UNCHANGED walletVars

\* A step of wallet.service.js, or of finance.
WalletStep == Purse!Next /\ UNCHANGED commerceVars

Next == CommerceStep \/ WalletStep

Spec == Init /\ [][Next]_vars

----------------------------------------------------------------------------
(* Properties *)

\* What a store has been paid or has asked for never exceeds what it ever
\* earned: only a return after a withdrawal, never a withdrawal itself, can
\* take its balance below zero.
PayoutsCoveredByEarnings ==
    \A s \in Stores : Purse!PaidOut(s) + Purse!PayoutInFlight(s) <= Purse!Earned(s)

\* With payouts running beside them, the services still implement
\* SaleSettlement: one ledger row for each settlement and each reversal.
ImplementsSettlement == Commerce!ImplementsSettlement

============================================================================
