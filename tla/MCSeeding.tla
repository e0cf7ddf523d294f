----------------------------- MODULE MCSeeding -----------------------------
(* Three of the five demo stores: one for each way an owner comes to its   *)
(* account.                                                                *)
EXTENDS Seeding, TLC

CONSTANTS ramesh, reviewer, partnerReview, groomer, supplies, reviewStore, spa

MCDemoStores == supplies :> ramesh @@ reviewStore :> partnerReview @@ spa :> groomer

=============================================================================
