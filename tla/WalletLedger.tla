---------------------------- MODULE WalletLedger ----------------------------
(***************************************************************************)
(* The rows of wallet_transactions: models/WalletTransaction.js and the    *)
(* queries of repositories/shared/wallet.repository.js.  A ledger is the   *)
(* sequence of a table's rows in the order they were committed.  The module*)
(* declares no variable: PartnerCommerce and Wallet both write the ledger, *)
(* PartnerMoney makes them share it.                                       *)
(***************************************************************************)
EXTENDS Integers, Sequences, FiniteSetsExt

WalletTransactionType == {"EARNING", "PAYOUT", "REFUND"}

WalletTransactionStatus == {"PENDING", "COMPLETED", "FAILED"}

\* The rows whose storeId is in stores and whose referenceId is in refs.
\* referenceId holds a UUID, so referenceType adds nothing to it.
WalletTransaction(stores, refs) ==
    [store  : stores,
     type   : WalletTransactionType,
     amount : Nat,
     ref    : refs,
     status : WalletTransactionStatus]

CreateTransaction(ledger, store, type, amount, ref, status) ==
    Append(ledger, [store  |-> store,
                    type   |-> type,
                    amount |-> amount,
                    ref    |-> ref,
                    status |-> status])

\* The positions of the rows of one type that refer to ref.
RowsFor(ledger, type, ref) ==
    {i \in DOMAIN ledger : ledger[i].type = type /\ ledger[i].ref = ref}

\* SUM(amount_in_inr) GROUP BY type, status for one store, an absent group
\* counting as 0.
SumByTypeAndStatus(ledger, store, type, status) ==
    MapThenSumSet(LAMBDA i : ledger[i].amount,
                  {i \in DOMAIN ledger : /\ ledger[i].store = store
                                         /\ ledger[i].type = type
                                         /\ ledger[i].status = status})

============================================================================
