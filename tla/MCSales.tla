------------------------------ MODULE MCSales ------------------------------
(* A small instance of PartnerSales. *)
EXTENDS PartnerSales, TLC

CONSTANTS s1, s2, o1, b1, x1, x2

\* One order and one booking, of two stores, with different amounts; for Money
\* one store sells both.
MCStoreOf      == o1 :> s1 @@ b1 :> s2
MCMoneyStoreOf == o1 :> s1 @@ b1 :> s1
MCAmountOf     == o1 :> 3 @@ b1 :> 2

Paid(s, amount, x) ==
    [store |-> s, type |-> "EARNING", amount |-> amount, ref |-> x, status |-> "COMPLETED"]

\* Two stores with one sale each, the first of which can pay for one large
\* withdrawal or two small ones.
MCOpening == <<Paid(s1, 4, x1), Paid(s2, 2, x2)>>

Symmetry == Permutations(Requests) \cup Permutations(Slots)
                \cup Permutations(MoneySlots)
                \cup Permutations(PurseRequests) \cup Permutations(PurseAccounts)

=============================================================================
