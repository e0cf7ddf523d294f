------------------------------- MODULE Wallet -------------------------------
(***************************************************************************)
(* The partner's wallet: services/partner/wallet.service.js.  No balance is*)
(* stored; every figure is a sum over the ledger.  A withdrawal is a chain *)
(* of three awaits with no transaction and no lock around them: find the   *)
(* default payout account, sum the ledger, create the PAYOUT row.  Adding a*)
(* payout account reads the accounts there are, then clears the old default*)
(* and creates the new account in one transaction.                         *)
(*                                                                         *)
(* EARNING and REFUND rows come from PartnerCommerce (PartnerMoney composes*)
(* the two); alone, this module starts from the ledger Opening.            *)
(***************************************************************************)
EXTENDS WalletLedger

CONSTANTS
    Stores,
    Sales,              \* the sales that Opening refers to
    Opening,            \* the ledger at the start
    Accounts,           \* the ids payout accounts may be created with
    Amounts,            \* the amounts partners ask for
    MinimumWithdrawal,  \* 500 rupees in the code
    Requests,
    MaxRows             \* bound: no withdrawal is written beyond this many rows

VARIABLES
    ledger,             \* the table wallet_transactions
    payoutAccounts,     \* the table payout_accounts
    reqs                \* the requests in flight

vars == <<ledger, payoutAccounts, reqs>>

----------------------------------------------------------------------------
(* Rows, requests and figures *)

\* method and its columns are of no consequence to the rules.
PayoutAccount == [id : Accounts, store : Stores, isDefault : BOOLEAN]

Idle == [op |-> "idle"]

AccountRequest == [op : {"account"}, store : Stores, isDefault : BOOLEAN]
\* sum: the default account was found; create: the balance sufficed.
WithdrawalRequest ==
    [op : {"sum", "create"}, store : Stores, amount : Amounts, account : Accounts]

Request == {Idle} \cup AccountRequest \cup WithdrawalRequest

AccountsOf(s) == {a \in payoutAccounts : a.store = s}

Earned(s)         == SumByTypeAndStatus(ledger, s, "EARNING", "COMPLETED")
PaidOut(s)        == SumByTypeAndStatus(ledger, s, "PAYOUT", "COMPLETED")
Refunded(s)       == SumByTypeAndStatus(ledger, s, "REFUND", "COMPLETED")
PayoutInFlight(s) == SumByTypeAndStatus(ledger, s, "PAYOUT", "PENDING")

\* Mutant: a requested payout is not yet spoken for.
AvailableUntilPaid(s) == Earned(s) - PaidOut(s) - Refunded(s)

\* availableBalanceInInr of computeSummary.
AvailableBalance(s) == Earned(s) - PaidOut(s) - Refunded(s) - PayoutInFlight(s)

----------------------------------------------------------------------------
(* Actions *)

Init ==
    /\ ledger = Opening
    /\ payoutAccounts = {}
    /\ reqs = [r \in Requests |-> Idle]

\* Mutant: only the partner's wish counts.
AddPayoutAccountAsAsked(r, s, isDefault) ==
    /\ reqs[r] = Idle
    /\ reqs' = [reqs EXCEPT ![r] = [op |-> "account", store |-> s, isDefault |-> isDefault]]
    /\ UNCHANGED <<ledger, payoutAccounts>>

\* addPayoutAccount up to its transaction: the first account of a store is
\* its default whatever the partner asked for.
AddPayoutAccount(r, s, isDefault) ==
    /\ reqs[r] = Idle
    /\ reqs' = [reqs EXCEPT ![r] = [op        |-> "account",
                                    store     |-> s,
                                    isDefault |-> isDefault \/ AccountsOf(s) = {}]]
    /\ UNCHANGED <<ledger, payoutAccounts>>

\* The accounts of every store but s as they are, those of s as no default.
DefaultsCleared(s) ==
    {IF a.store = s THEN [a EXCEPT !.isDefault = FALSE] ELSE a : a \in payoutAccounts}

\* The transaction of addPayoutAccount, under a fresh id.
CommitPayoutAccount(r, id) ==
    LET q == reqs[r] IN
    /\ q.op = "account"
    /\ \A a \in payoutAccounts : a.id # id
    /\ payoutAccounts' =
           (IF q.isDefault THEN DefaultsCleared(q.store) ELSE payoutAccounts)
               \cup {[id |-> id, store |-> q.store, isDefault |-> q.isDefault]}
    /\ reqs' = [reqs EXCEPT ![r] = Idle]
    /\ UNCHANGED ledger

\* requestWithdrawal, first await: the amount is large enough and the store
\* has a default account, which the payout will name.
RequestWithdrawal(r, s, amount) ==
    /\ reqs[r] = Idle
    /\ amount >= MinimumWithdrawal
    /\ \E a \in AccountsOf(s) :
          /\ a.isDefault
          /\ reqs' = [reqs EXCEPT ![r] = [op      |-> "sum",
                                          store   |-> s,
                                          amount  |-> amount,
                                          account |-> a.id]]
    /\ UNCHANGED <<ledger, payoutAccounts>>

\* Second await: the balance, computed now, covers the amount.
CheckBalance(r) ==
    /\ reqs[r].op = "sum"
    /\ reqs[r].amount <= AvailableBalance(reqs[r].store)
    /\ reqs' = [reqs EXCEPT ![r].op = "create"]
    /\ UNCHANGED <<ledger, payoutAccounts>>

\* Mutant: the row gets a status wallet_transactions does not have.
WithRequestedPayout(q) ==
    CreateTransaction(ledger, q.store, "PAYOUT", q.amount, q.account, "REQUESTED")

\* The ledger with the PENDING row of withdrawal q.
WithPayout(q) ==
    CreateTransaction(ledger, q.store, "PAYOUT", q.amount, q.account, "PENDING")

\* Third await: the row is created.
CreateWithdrawal(r) ==
    LET q == reqs[r] IN
    /\ q.op = "create"
    /\ Len(ledger) < MaxRows
    /\ ledger' = WithPayout(q)
    /\ reqs' = [reqs EXCEPT ![r] = Idle]
    /\ UNCHANGED payoutAccounts

\* The request is refused for its balance, fails, or dies with its process.
Fail(r) ==
    /\ reqs[r] # Idle
    /\ reqs' = [reqs EXCEPT ![r] = Idle]
    /\ UNCHANGED <<ledger, payoutAccounts>>

\* Finance approves or refuses a requested payout.  The code that does so is
\* not in the repository; the wallet only relies on the row changing status.
DecidePayout(status) ==
    /\ \E i \in DOMAIN ledger :
          /\ ledger[i].type = "PAYOUT"
          /\ ledger[i].status = "PENDING"
          /\ ledger' = [ledger EXCEPT ![i].status = status]
    /\ UNCHANGED <<payoutAccounts, reqs>>

Next ==
    \/ \E r \in Requests :
          \/ \E s \in Stores, isDefault \in BOOLEAN : AddPayoutAccount(r, s, isDefault)
          \/ \E id \in Accounts : CommitPayoutAccount(r, id)
          \/ \E s \in Stores, amount \in Amounts : RequestWithdrawal(r, s, amount)
          \/ CheckBalance(r)
          \/ CreateWithdrawal(r)
          \/ Fail(r)
    \/ \E status \in {"COMPLETED", "FAILED"} : DecidePayout(status)

Spec == Init /\ [][Next]_vars

----------------------------------------------------------------------------
(* Properties *)

\* Every variable holds what its table or its handler can hold.
TypeOK ==
    /\ ledger \in Seq(WalletTransaction(Stores, Sales \cup Accounts))
    /\ payoutAccounts \subseteq PayoutAccount
    /\ reqs \in [Requests -> Request]

\* "Exactly one per store should be true" (models/PayoutAccount.js): a store
\* with payout accounts has exactly one default, however many partners' devices
\* add accounts at the same time.
OneDefaultPerStore ==
    \A s \in Stores : AccountsOf(s) # {} =>
        \E a \in AccountsOf(s) : /\ a.isDefault
                                 /\ \A b \in AccountsOf(s) : b.isDefault => b = a

\* "two withdrawals in quick succession cannot together overdraw": while
\* nothing is refunded, no store's balance goes below zero.
NeverOverdrawn == \A s \in Stores : AvailableBalance(s) >= 0

============================================================================
