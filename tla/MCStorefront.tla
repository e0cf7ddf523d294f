---------------------------- MODULE MCStorefront ----------------------------
(* One partner with medicines that need proof, vitamins that are filed under *)
(* them and need none of their own, and grooming.                           *)
EXTENDS Storefront, TLC

MCKindOf == ("vitamins" :> "PRODUCT") @@ ("medicines" :> "PRODUCT") @@ ("grooming" :> "SERVICE")

MCRootOf == ("vitamins" :> "medicines") @@ ("medicines" :> "medicines")
                @@ ("grooming" :> "grooming")

\* Medicines ask for a dosage.
MCFits == ("vitamins" :> {"plain", "dosed"}) @@ ("medicines" :> {"dosed"}) @@ ("grooming" :> {"plain"})

MCNewListings ==
    { [category |-> "vitamins",      content |-> "plain", stock |-> "full",  status |-> "DRAFT"],
      [category |-> "medicines", content |-> "dosed", stock |-> "full",  status |-> "ACTIVE"],
      [category |-> "grooming",  content |-> "plain", stock |-> "empty", status |-> "DRAFT"] }

MCKept == [category |-> "unset", content |-> "unset", stock |-> "unset", status |-> "unset"]

MCEdits ==
    { [MCKept EXCEPT !.category = "medicines"],
      [MCKept EXCEPT !.content = "dosed"],
      [MCKept EXCEPT !.stock = "full"],
      [MCKept EXCEPT !.status = "ACTIVE"] }

Symmetry == Permutations(OnboardingRequests)

=============================================================================
