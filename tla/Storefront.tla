----------------------------- MODULE Storefront -----------------------------
(***************************************************************************)
(* Stores and their listings together: what PartnerStore opens, widens and *)
(* has reviewed is what PartnerListings may publish.  Each keeps its own   *)
(* requests in flight; they meet in stores alone.  overlapped remembers    *)
(* whether a request, or staff, ever took a step while another request was *)
(* in flight.                                                              *)
(***************************************************************************)
EXTENDS Naturals, Sequences

CONSTANTS
    Owners, StaffStatuses, OnboardingRequests,
    Categories, KindOf, RootOf, Gated, Contents, Fits, NewListings, Edits, NoContent,
    ListingRequests, MaxListings

VARIABLES stores, linked, onboardingReqs, listings, sold, listingReqs, overlapped

storeVars   == <<stores, linked, onboardingReqs>>
listingVars == <<listings, sold, listingReqs>>
vars        == <<storeVars, listingVars, overlapped>>

Onboarding == INSTANCE PartnerStore WITH
    Requests <- OnboardingRequests, reqs <- onboardingReqs

Shelf == INSTANCE PartnerListings WITH
    Requests <- ListingRequests, reqs <- listingReqs

ASSUME StorefrontAssumption ==
    /\ StaffStatuses \subseteq Onboarding!StoreStatus
    /\ KindOf \in [Categories -> Shelf!ListingType]
    /\ RootOf \in [Categories -> Categories]
    /\ Gated \subseteq Categories
    /\ Fits \in [Categories -> SUBSET Contents]
    /\ NewListings \subseteq Shelf!NewListing
    /\ Edits \subseteq Shelf!Edit
    /\ NoContent \notin Contents
    /\ "unset" \notin Categories \cup Contents
    /\ MaxListings \in Nat

Init == Onboarding!Init /\ Shelf!Init /\ overlapped = FALSE

----------------------------------------------------------------------------
(* Steps *)

\* No request is in flight but those of onboarding and listing named.
Quiet(onboarding, listing) ==
    /\ \A r \in OnboardingRequests \ onboarding : onboardingReqs[r] = Onboarding!Idle
    /\ \A r \in ListingRequests \ listing : listingReqs[r] = Shelf!Idle

OnboardingStep(r) ==
    /\ Onboarding!Handle(r)
    /\ overlapped' = (overlapped \/ ~Quiet({r}, {}))
    /\ UNCHANGED listingVars

ListingStep(r) ==
    /\ Shelf!Handle(r)
    /\ overlapped' = (overlapped \/ ~Quiet({}, {r}))
    /\ UNCHANGED storeVars

StaffStep ==
    /\ \/ Onboarding!Staff /\ UNCHANGED listingVars
       \/ /\ \E l \in Shelf!Existing, verdict \in {"APPROVED", "REJECTED"} :
                 Shelf!Moderate(l, verdict)
          /\ UNCHANGED storeVars
    /\ overlapped' = (overlapped \/ ~Quiet({}, {}))

SaleStep ==
    /\ \E l \in Shelf!Existing : Shelf!Sell(l)
    /\ UNCHANGED <<storeVars, overlapped>>

Next ==
    \/ \E r \in OnboardingRequests : OnboardingStep(r)
    \/ \E r \in ListingRequests : ListingStep(r)
    \/ StaffStep
    \/ SaleStep

Spec == Init /\ [][Next]_vars

----------------------------------------------------------------------------
(* Properties *)

\* Both halves hold what their tables can hold.
TypeOK == Onboarding!TypeOK /\ Shelf!TypeOK

\* However requests overlap, a store never holds a listing of a kind it does
\* not offer: capabilities only ever widen.
OfferedByItsStore == Shelf!OfferedByItsStore

\* "Any edit that changes what customers would see sends the listing back for
\* moderation": as long as requests take turns, also with the moderators,
\* customers see nothing that was not approved as it stands.
PublishedIsReviewedInTurn == ~overlapped => Shelf!PublishedIsReviewed

\* "a listing under one cannot go ACTIVE until the store has an approved KYC
\* document", as long as requests take turns: by no way of creating, editing,
\* moving or switching it on.
PublishesWithProofInTurn == [][~overlapped' => Shelf!PublishesWithProof]_vars

\* "Once it is in the queue, it stops being self-serve", as long as requests
\* take turns: only staff change the status or the documents of a store whose
\* details are in, and nothing but their decision lifts a suspension.
SettledStoresAreStaffsInTurn == [][~overlapped' => Onboarding!LeavesSettledStores]_vars

=============================================================================
