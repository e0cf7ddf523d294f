--------------------------- MODULE SaleSettlement ---------------------------
(***************************************************************************)
(* What the partner side of petza-backend promises about money, without    *)
(* its requests and tables: a sale is open until it is settled or voided,  *)
(* settling it credits the store once, and a returnable sale that is taken *)
(* back is debited once.  PartnerCommerce is shown to implement this while *)
(* it handles one request at a time.                                       *)
(***************************************************************************)
EXTENDS Naturals

CONSTANTS Sales, Returnable

VARIABLES
    phase,      \* of each sale
    credits,    \* how many EARNING rows each sale has
    debits      \* how many REFUND rows

vars == <<phase, credits, debits>>

Init ==
    /\ phase = [x \in Sales |-> "open"]
    /\ credits = [x \in Sales |-> 0]
    /\ debits = [x \in Sales |-> 0]

Settle(x) ==
    /\ phase[x] = "open"
    /\ phase' = [phase EXCEPT ![x] = "settled"]
    /\ credits' = [credits EXCEPT ![x] = @ + 1]
    /\ UNCHANGED debits

Void(x) ==
    /\ phase[x] = "open"
    /\ phase' = [phase EXCEPT ![x] = "void"]
    /\ UNCHANGED <<credits, debits>>

Reverse(x) ==
    /\ x \in Returnable
    /\ phase[x] = "settled"
    /\ phase' = [phase EXCEPT ![x] = "reversed"]
    /\ debits' = [debits EXCEPT ![x] = @ + 1]
    /\ UNCHANGED credits

Next == \E x \in Sales : Settle(x) \/ Void(x) \/ Reverse(x)

Spec == Init /\ [][Next]_vars

============================================================================
