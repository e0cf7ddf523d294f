----------------------------- MODULE MCEnquiry -----------------------------
(* Small instances of Enquiry: a kennel's puppy and a private seller's cat. *)
EXTENDS EnquiryInTurn, TLC

CONSTANTS buyer, owner, kennel, puppy, cat

OwnerOfEach == [l \in {puppy, cat} |-> IF l = puppy THEN kennel ELSE owner]

Symmetry == Permutations(Requests)

============================================================================
