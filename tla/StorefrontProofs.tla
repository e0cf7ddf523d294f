-------------------------- MODULE StorefrontProofs --------------------------
(***************************************************************************)
(* What Storefront keeps for any owners, categories, listings and requests:*)
(* a store offers what it lists, whatever overlaps; and as long as requests*)
(* take turns, what customers see was reviewed, gated categories had their *)
(* proof, and a settled store is staff's alone.                            *)
(***************************************************************************)
EXTENDS Storefront, SequenceTheorems, TLAPS

----------------------------------------------------------------------------
(* The strengthened invariants *)

\* What the store of a listing offers covers the listing.
Offers(s, kind) == Shelf!CapabilityFor[kind] \in stores[s].offers

Writes(q, op) == q.stage \in {"gating", "writing"} /\ q.op = op

\* A row about to be created belongs to a store that offers its kind, and an
\* edit never takes a listing to another kind, whatever became of it since.
SourcedBy(q) ==
    /\ Writes(q, "create") =>
           q.store \in DOMAIN stores /\ Offers(q.store, KindOf[q.next.category])
    /\ Writes(q, "save") =>
           /\ KindOf[q.next.category] = KindOf[q.seen.category]
           /\ q.id \in Shelf!Existing => Shelf!Kind(listings[q.id]) = KindOf[q.seen.category]

Sourced == \A r \in ListingRequests : SourcedBy(listingReqs[r])

StorefrontInv == TypeOK /\ OfferedByItsStore /\ Sourced

----------------------------------------------------------------------------
(* Rows *)

LEMMA TableFacts ==
    ASSUME TypeOK
    PROVE  /\ stores \in Seq(Onboarding!Store)
           /\ Len(stores) \in Nat /\ DOMAIN stores = 1 .. Len(stores)
           /\ \A s \in DOMAIN stores : stores[s] \in Onboarding!Store
           /\ listings \in Seq(Shelf!Listing \cup {Shelf!Deleted})
           /\ Len(listings) \in Nat /\ DOMAIN listings = 1 .. Len(listings)
           /\ \A l \in DOMAIN listings : listings[l] \in Shelf!Listing \cup {Shelf!Deleted}
BY DEF TypeOK, Onboarding!TypeOK, Shelf!TypeOK

LEMMA ListingIsNotDeleted == Shelf!Deleted \notin Shelf!Listing
BY DEF Shelf!Listing, Shelf!Deleted

LEMMA ExistingIsListing ==
    ASSUME TypeOK
    PROVE  /\ Shelf!Existing \subseteq DOMAIN listings
           /\ \A l \in Shelf!Existing : listings[l] \in Shelf!Listing
BY TableFacts DEF Shelf!Existing

----------------------------------------------------------------------------
(* Onboarding and staff: stores only come and widen *)

\* What a step may do to stores as far as listings are concerned.
StoresGrow ==
    /\ DOMAIN stores \subseteq DOMAIN stores'
    /\ \A s \in DOMAIN stores : stores[s].offers \subseteq stores'[s].offers

\* A row that changed but kept its owner and what it offers.
LEMMA StoreStep ==
    ASSUME TypeOK, NEW s \in DOMAIN stores, NEW row \in Onboarding!Store,
           row.owner = stores[s].owner, stores[s].offers \subseteq row.offers,
           stores' = [stores EXCEPT ![s] = row], linked' = linked
    PROVE  /\ stores' \in Seq(Onboarding!Store) /\ DOMAIN stores' = DOMAIN stores
           /\ \A x \in DOMAIN stores' : linked'[stores'[x].owner] = x
           /\ StoresGrow
<1>1. s \in 1 .. Len(stores)
  BY TableFacts
<1>2. stores' \in Seq(Onboarding!Store) /\ DOMAIN stores' = DOMAIN stores
  BY <1>1, TableFacts, ExceptSeq
<1>3. \A x \in DOMAIN stores : stores'[x] = IF x = s THEN row ELSE stores[x]
  BY TableFacts
<1> QED
  BY <1>2, <1>3 DEF TypeOK, Onboarding!TypeOK, StoresGrow

\* A request that is refused, or only loads and checks.
LEMMA OnboardingRequestStep ==
    ASSUME TypeOK, NEW r \in OnboardingRequests, NEW q \in Onboarding!Request,
           q.stage \in {"widening", "submitting"} => q.id \in DOMAIN stores,
           onboardingReqs' = [onboardingReqs EXCEPT ![r] = q], UNCHANGED <<stores, linked>>
    PROVE  Onboarding!TypeOK' /\ StoresGrow
BY DEF TypeOK, Onboarding!TypeOK, StoresGrow

\* One that has written to a store that was there.
LEMMA OnboardingWriteStep ==
    ASSUME TypeOK, NEW r \in OnboardingRequests,
           onboardingReqs' = [onboardingReqs EXCEPT ![r] = Onboarding!Idle],
           stores' \in Seq(Onboarding!Store), DOMAIN stores \subseteq DOMAIN stores',
           linked' \in [Owners -> Nat],
           \A s \in DOMAIN stores' : linked'[stores'[s].owner] = s
    PROVE  Onboarding!TypeOK'
<1>1. Onboarding!Idle \in Onboarding!Request
      /\ Onboarding!Idle.stage \notin {"widening", "submitting"}
  BY DEF Onboarding!Request, Onboarding!Idle
<1>2. onboardingReqs' \in [OnboardingRequests -> Onboarding!Request]
  BY <1>1 DEF TypeOK, Onboarding!TypeOK
<1>3. \A x \in OnboardingRequests :
         onboardingReqs'[x].stage \in {"widening", "submitting"}
         => onboardingReqs'[x] = onboardingReqs[x]
  BY <1>1 DEF TypeOK, Onboarding!TypeOK
<1>4. \A x \in OnboardingRequests :
         onboardingReqs'[x].stage \in {"widening", "submitting"}
         => onboardingReqs'[x].id \in DOMAIN stores'
  BY <1>3 DEF TypeOK, Onboarding!TypeOK
<1> QED
  BY <1>2, <1>4 DEF Onboarding!TypeOK

LEMMA OnboardingKeepsStores ==
    ASSUME TypeOK, NEW r \in OnboardingRequests, Onboarding!Handle(r)
    PROVE  Onboarding!TypeOK' /\ StoresGrow
<1> USE DEF Onboarding!Become
<1>1. ASSUME NEW owner \in Owners, NEW choice \in Onboarding!Choices,
             Onboarding!SelectCapabilities(r, owner, choice)
      PROVE  Onboarding!TypeOK' /\ StoresGrow
  <2>1. UNCHANGED <<stores, linked>>
    BY <1>1 DEF Onboarding!SelectCapabilities
  <2>2. CASE onboardingReqs' = [onboardingReqs EXCEPT ![r] =
                 [stage |-> "opening", owner |-> owner, offers |-> choice]]
    <3> DEFINE q == [stage |-> "opening", owner |-> owner, offers |-> choice]
    <3>1. q \in Onboarding!Request /\ q.stage \notin {"widening", "submitting"}
      BY DEF Onboarding!Request, Onboarding!Choices
    <3> QED
      BY <2>1, <2>2, <3>1, OnboardingRequestStep
  <2>3. ASSUME NEW s \in Onboarding!StoresOf(owner),
               onboardingReqs' = [onboardingReqs EXCEPT ![r] =
                   [stage |-> "widening", id |-> s, offers |-> choice \ stores[s].offers]]
        PROVE  Onboarding!TypeOK' /\ StoresGrow
    <3> DEFINE q == [stage |-> "widening", id |-> s, offers |-> choice \ stores[s].offers]
    <3>1. s \in DOMAIN stores /\ s \in Nat \ {0}
      BY TableFacts DEF Onboarding!StoresOf
    <3>2. q \in Onboarding!Request /\ q.id \in DOMAIN stores
      BY <3>1 DEF Onboarding!Request, Onboarding!Choices
    <3> HIDE DEF q
    <3> QED
      BY <2>1, <2>3, <3>2, OnboardingRequestStep DEF q
  <2> QED
    BY <1>1, <2>2, <2>3 DEF Onboarding!SelectCapabilities
<1>2. ASSUME Onboarding!OpenStore(r)
      PROVE  Onboarding!TypeOK' /\ StoresGrow
  <2> DEFINE owner == onboardingReqs[r].owner
             row == [owner |-> owner, offers |-> onboardingReqs[r].offers,
                     status |-> "PENDING_KYC", document |-> "NONE"]
  <2>1. owner \in Owners /\ row \in Onboarding!Store
    BY <1>2 DEF Onboarding!OpenStore, TypeOK, Onboarding!TypeOK, Onboarding!Request,
                Onboarding!Idle, Onboarding!Store, Onboarding!StoreStatus
  <2>2. /\ stores' = Append(stores, row)
        /\ linked' = [linked EXCEPT ![owner] = Len(stores) + 1]
        /\ onboardingReqs' = [onboardingReqs EXCEPT ![r] = Onboarding!Idle]
        /\ \A s \in DOMAIN stores : stores[s].owner # owner
    BY <1>2 DEF Onboarding!OpenStore, Onboarding!StoresOf
  <2> HIDE DEF row
  <2>3. /\ stores' \in Seq(Onboarding!Store) /\ DOMAIN stores' = 1 .. Len(stores) + 1
        /\ \A s \in DOMAIN stores : stores'[s] = stores[s]
        /\ stores'[Len(stores) + 1] = row
    BY <2>1, <2>2, TableFacts, AppendProperties, LenProperties
  <2>4. row.owner = owner
    BY DEF row
  <2>5. linked' \in [Owners -> Nat]
    BY <2>1, <2>2, TableFacts DEF TypeOK, Onboarding!TypeOK
  <2>6. \A s \in DOMAIN stores' : linked'[stores'[s].owner] = s
    <3> SUFFICES ASSUME NEW s \in DOMAIN stores' PROVE linked'[stores'[s].owner] = s
      OBVIOUS
    <3>1. CASE s \in DOMAIN stores
      BY <2>2, <2>3, <3>1, TableFacts DEF TypeOK, Onboarding!TypeOK, Onboarding!Store
    <3>2. CASE s \notin DOMAIN stores
      <4>1. s = Len(stores) + 1
        BY <2>3, <3>2, TableFacts
      <4> QED
        BY <4>1, <2>1, <2>2, <2>3, <2>4 DEF TypeOK, Onboarding!TypeOK
    <3> QED
      BY <3>1, <3>2
  <2>7. StoresGrow
    BY <2>3, TableFacts DEF StoresGrow
  <2> QED
    BY <2>2, <2>3, <2>5, <2>6, <2>7, OnboardingWriteStep DEF StoresGrow
<1>3. ASSUME NEW s \in DOMAIN stores, NEW choice \in Onboarding!Choices,
             Onboarding!EnableCapabilities(r, s, choice)
      PROVE  Onboarding!TypeOK' /\ StoresGrow
  <2> DEFINE q == [stage |-> "widening", id |-> s, offers |-> choice \ stores[s].offers]
  <2>1. q \in Onboarding!Request /\ q.id \in DOMAIN stores
    BY TableFacts DEF Onboarding!Request, Onboarding!Choices
  <2>2. onboardingReqs' = [onboardingReqs EXCEPT ![r] = q] /\ UNCHANGED <<stores, linked>>
    BY <1>3 DEF Onboarding!EnableCapabilities
  <2> HIDE DEF q
  <2> QED
    BY <2>1, <2>2, OnboardingRequestStep
<1>4. ASSUME Onboarding!CommitCapabilities(r)
      PROVE  Onboarding!TypeOK' /\ StoresGrow
  <2> DEFINE s == onboardingReqs[r].id
             row == [stores[s] EXCEPT !.offers = @ \cup onboardingReqs[r].offers]
  <2>1. s \in DOMAIN stores /\ onboardingReqs[r].offers \subseteq Onboarding!PartnerCapability
    BY <1>4 DEF Onboarding!CommitCapabilities, TypeOK, Onboarding!TypeOK, Onboarding!Request,
                Onboarding!Idle
  <2>2. /\ row \in Onboarding!Store /\ row.owner = stores[s].owner
        /\ stores[s].offers \subseteq row.offers
    BY <2>1, TableFacts DEF Onboarding!Store
  <2>3. /\ stores' = [stores EXCEPT ![s] = row] /\ linked' = linked
        /\ onboardingReqs' = [onboardingReqs EXCEPT ![r] = Onboarding!Idle]
    BY <1>4, <2>1 DEF Onboarding!CommitCapabilities, Onboarding!Widened
  <2> HIDE DEF row, s
  <2>4. /\ stores' \in Seq(Onboarding!Store) /\ DOMAIN stores' = DOMAIN stores
        /\ \A x \in DOMAIN stores' : linked'[stores'[x].owner] = x
        /\ StoresGrow
    BY <2>1, <2>2, <2>3, StoreStep
  <2>5. linked' \in [Owners -> Nat]
    BY <2>3 DEF TypeOK, Onboarding!TypeOK
  <2> QED
    BY <2>3, <2>4, <2>5, OnboardingWriteStep
<1>5. ASSUME NEW s \in DOMAIN stores, NEW document \in {"NONE", "PENDING"},
             Onboarding!SubmitKyc(r, s, document)
      PROVE  Onboarding!TypeOK' /\ StoresGrow
  <2> DEFINE q == [stage |-> "submitting", id |-> s, document |-> document]
  <2>1. q \in Onboarding!Request /\ q.id \in DOMAIN stores
    BY TableFacts DEF Onboarding!Request
  <2>2. onboardingReqs' = [onboardingReqs EXCEPT ![r] = q] /\ UNCHANGED <<stores, linked>>
    BY <1>5 DEF Onboarding!SubmitKyc
  <2> HIDE DEF q
  <2> QED
    BY <2>1, <2>2, OnboardingRequestStep
<1>6. ASSUME Onboarding!CommitKyc(r)
      PROVE  Onboarding!TypeOK' /\ StoresGrow
  <2> DEFINE s == onboardingReqs[r].id
             row == [stores[s] EXCEPT !.status = "ACTIVE",
                                      !.document = onboardingReqs[r].document]
  <2>1. s \in DOMAIN stores /\ onboardingReqs[r].document \in {"NONE", "PENDING"}
    BY <1>6 DEF Onboarding!CommitKyc, TypeOK, Onboarding!TypeOK, Onboarding!Request,
                Onboarding!Idle
  <2>2. /\ row \in Onboarding!Store /\ row.owner = stores[s].owner
        /\ stores[s].offers \subseteq row.offers
    BY <2>1, TableFacts DEF Onboarding!Store, Onboarding!StoreStatus, Onboarding!KycDocStatus
  <2>3. /\ stores' = [stores EXCEPT ![s] = row] /\ linked' = linked
        /\ onboardingReqs' = [onboardingReqs EXCEPT ![r] = Onboarding!Idle]
    BY <1>6, <2>1, TableFacts DEF Onboarding!CommitKyc, Onboarding!Store
  <2> HIDE DEF row, s
  <2>4. /\ stores' \in Seq(Onboarding!Store) /\ DOMAIN stores' = DOMAIN stores
        /\ \A x \in DOMAIN stores' : linked'[stores'[x].owner] = x
        /\ StoresGrow
    BY <2>1, <2>2, <2>3, StoreStep
  <2>5. linked' \in [Owners -> Nat]
    BY <2>3 DEF TypeOK, Onboarding!TypeOK
  <2> QED
    BY <2>3, <2>4, <2>5, OnboardingWriteStep
<1>7. ASSUME Onboarding!Fail(r)
      PROVE  Onboarding!TypeOK' /\ StoresGrow
  <2>1. /\ Onboarding!Idle \in Onboarding!Request
        /\ Onboarding!Idle.stage \notin {"widening", "submitting"}
    BY DEF Onboarding!Request, Onboarding!Idle
  <2> QED
    BY <1>7, <2>1, OnboardingRequestStep DEF Onboarding!Fail
<1> QED
  BY <1>1, <1>2, <1>3, <1>4, <1>5, <1>6, <1>7 DEF Onboarding!Handle

LEMMA StaffKeepStores ==
    ASSUME TypeOK, Onboarding!Staff
    PROVE  Onboarding!TypeOK' /\ StoresGrow /\ onboardingReqs' = onboardingReqs
<1>1. PICK s \in DOMAIN stores :
         \/ \E status \in StaffStatuses : Onboarding!DecideStore(s, status)
         \/ \E verdict \in {"APPROVED", "REJECTED"} : Onboarding!ReviewDocument(s, verdict)
  BY DEF Onboarding!Staff
<1>2. PICK row : /\ stores' = [stores EXCEPT ![s] = row]
                 /\ row \in Onboarding!Store /\ row.owner = stores[s].owner
                 /\ row.offers = stores[s].offers
                 /\ UNCHANGED <<linked, onboardingReqs>>
  <2>1. ASSUME NEW status \in StaffStatuses, Onboarding!DecideStore(s, status)
        PROVE  LET row == [stores[s] EXCEPT !.status = status]
               IN  /\ stores' = [stores EXCEPT ![s] = row]
                   /\ row \in Onboarding!Store /\ row.owner = stores[s].owner
                   /\ row.offers = stores[s].offers
                   /\ UNCHANGED <<linked, onboardingReqs>>
    BY <2>1, StorefrontAssumption, TableFacts DEF Onboarding!DecideStore, Onboarding!Store
  <2>2. ASSUME NEW verdict \in {"APPROVED", "REJECTED"}, Onboarding!ReviewDocument(s, verdict)
        PROVE  LET row == [stores[s] EXCEPT !.document = verdict]
               IN  /\ stores' = [stores EXCEPT ![s] = row]
                   /\ row \in Onboarding!Store /\ row.owner = stores[s].owner
                   /\ row.offers = stores[s].offers
                   /\ UNCHANGED <<linked, onboardingReqs>>
    BY <2>2, TableFacts DEF Onboarding!ReviewDocument, Onboarding!Store, Onboarding!KycDocStatus
  <2> QED
    BY <1>1, <2>1, <2>2
<1>3. /\ stores' \in Seq(Onboarding!Store) /\ DOMAIN stores' = DOMAIN stores
      /\ \A x \in DOMAIN stores' : linked'[stores'[x].owner] = x
      /\ StoresGrow
  BY <1>2, StoreStep
<1> QED
  BY <1>2, <1>3 DEF TypeOK, Onboarding!TypeOK

\* Listings do not notice stores that come and widen.
LEMMA StoresStep ==
    ASSUME StorefrontInv, Onboarding!TypeOK', StoresGrow, UNCHANGED listingVars
    PROVE  StorefrontInv'
<1>1. Shelf!Existing' = Shelf!Existing
  BY DEF Shelf!Existing, listingVars
<1>2. TypeOK'
  BY <1>1 DEF StorefrontInv, TypeOK, Shelf!TypeOK, listingVars, StoresGrow
<1>3. OfferedByItsStore'
  BY <1>1 DEF StorefrontInv, TypeOK, Shelf!TypeOK, OfferedByItsStore, Shelf!OfferedByItsStore,
              Shelf!Kind, listingVars, StoresGrow
<1>4. ASSUME NEW r \in ListingRequests PROVE SourcedBy(listingReqs[r])'
  <2>1. SourcedBy(listingReqs[r])
    BY DEF StorefrontInv, Sourced
  <2> QED
    BY <1>1, <2>1 DEF SourcedBy, Writes, Offers, Shelf!Kind, listingVars, StoresGrow
<1> QED
  BY <1>2, <1>3, <1>4 DEF StorefrontInv, Sourced

----------------------------------------------------------------------------
(* Listings: what their requests hold and write *)

\* What a create or a save holds.
LEMMA WriteFacts ==
    ASSUME NEW q \in Shelf!Request
    PROVE  /\ Writes(q, "create") => q.store \in Nat \ {0} /\ q.next \in Shelf!Columns
           /\ Writes(q, "save") => /\ q.id \in Nat \ {0}
                                   /\ q.seen \in Shelf!Columns /\ q.next \in Shelf!Columns
                                   /\ q.hours \in Shelf!Stock \cup {"kept"}
           /\ q.stage = "deleting" => q.id \in Nat \ {0}
BY DEF Shelf!Request, Shelf!Idle, Writes

LEMMA IdleListing ==
    /\ Shelf!Idle \in Shelf!Request
    /\ \A op \in {"create", "save"} : ~Writes(Shelf!Idle, op)
    /\ Shelf!Idle.stage = "idle"
BY DEF Shelf!Request, Shelf!Idle, Writes

\* A new row or a new stage is all that a listing's handler makes of its request.
LEMMA ListingRequestStep ==
    ASSUME StorefrontInv, NEW r \in ListingRequests, NEW q \in Shelf!Request, SourcedBy(q),
           Writes(q, "save") => q.id \in DOMAIN listings,
           listingReqs' = [listingReqs EXCEPT ![r] = q],
           UNCHANGED <<listings, sold, storeVars>>
    PROVE  StorefrontInv'
<1>1. Shelf!Existing' = Shelf!Existing
  BY DEF Shelf!Existing
<1>2. TypeOK'
  BY <1>1 DEF StorefrontInv, TypeOK, Onboarding!TypeOK, Shelf!TypeOK, storeVars, Writes
<1>3. OfferedByItsStore'
  BY <1>1 DEF StorefrontInv, OfferedByItsStore, Shelf!OfferedByItsStore, Shelf!Kind, storeVars
<1>4. ASSUME NEW x \in ListingRequests PROVE SourcedBy(listingReqs[x])'
  <2>1. listingReqs'[x] = IF x = r THEN q ELSE listingReqs[x]
    BY DEF StorefrontInv, TypeOK, Shelf!TypeOK
  <2>2. SourcedBy(listingReqs'[x])
    BY <2>1 DEF StorefrontInv, Sourced
  <2> QED
    BY <1>1, <2>2 DEF SourcedBy, Writes, Offers, Shelf!Kind, storeVars
<1> QED
  BY <1>2, <1>3, <1>4 DEF StorefrontInv, Sourced

\* Requests that go on as they were, or end.
OnlyEnd ==
    /\ listingReqs' \in [ListingRequests -> Shelf!Request]
    /\ \A x \in ListingRequests : listingReqs'[x] \in {listingReqs[x], Shelf!Idle}

LEMMA EndingOnlyEnds ==
    ASSUME TypeOK, NEW r \in ListingRequests,
           listingReqs' = [listingReqs EXCEPT ![r] = Shelf!Idle]
    PROVE  OnlyEnd
BY IdleListing DEF OnlyEnd, TypeOK, Shelf!TypeOK

\* What remains to be shown of a step that changes the tables of listings.
LEMMA TableStep ==
    ASSUME StorefrontInv, OnlyEnd, UNCHANGED storeVars,
           listings' \in Seq(Shelf!Listing \cup {Shelf!Deleted}),
           sold' \subseteq Shelf!Existing',
           DOMAIN listings \subseteq DOMAIN listings',
           Shelf!Existing' \cap DOMAIN listings \subseteq Shelf!Existing,
           \A l \in Shelf!Existing' \cap DOMAIN listings :
               /\ listings'[l].store = listings[l].store
               /\ Shelf!Kind(listings'[l]) = Shelf!Kind(listings[l]),
           \A l \in Shelf!Existing' \ DOMAIN listings :
               /\ listings'[l].store \in DOMAIN stores
               /\ Offers(listings'[l].store, Shelf!Kind(listings'[l]))
    PROVE  StorefrontInv'
<1>1. \A l \in Shelf!Existing' :
         /\ listings'[l].store \in DOMAIN stores
         /\ Offers(listings'[l].store, Shelf!Kind(listings'[l]))
  BY DEF StorefrontInv, TypeOK, Shelf!TypeOK, OfferedByItsStore, Shelf!OfferedByItsStore, Offers
<1>2. ASSUME NEW x \in ListingRequests, Writes(listingReqs'[x], "save")
      PROVE  listingReqs'[x].id \in DOMAIN listings
  BY <1>2, IdleListing DEF OnlyEnd, StorefrontInv, TypeOK, Shelf!TypeOK, Writes
<1>3. TypeOK'
  BY <1>1, <1>2 DEF StorefrontInv, TypeOK, Onboarding!TypeOK, Shelf!TypeOK, storeVars, OnlyEnd, Writes
<1>4. OfferedByItsStore'
  BY <1>1 DEF OfferedByItsStore, Shelf!OfferedByItsStore, Offers, Shelf!Kind, storeVars
<1>5. ASSUME NEW x \in ListingRequests PROVE SourcedBy(listingReqs[x])'
  <2>1. CASE listingReqs'[x] = Shelf!Idle
    BY <2>1, IdleListing DEF SourcedBy, Writes
  <2>2. CASE listingReqs'[x] = listingReqs[x]
    <3>1. SourcedBy(listingReqs[x])
      BY DEF StorefrontInv, Sourced
    <3>2. Writes(listingReqs[x], "save") => listingReqs[x].id \in DOMAIN listings
      BY DEF StorefrontInv, TypeOK, Shelf!TypeOK, Writes
    <3>3. stores' = stores
      BY DEF storeVars
    <3> QED
      BY <2>2, <3>1, <3>2, <3>3 DEF SourcedBy, Writes, Offers, Shelf!Kind
  <2> QED
    BY <2>1, <2>2 DEF OnlyEnd
<1> QED
  BY <1>3, <1>4, <1>5 DEF StorefrontInv, Sourced

\* A row that changed, but neither its store nor its kind.
LEMMA RowStep ==
    ASSUME StorefrontInv, OnlyEnd, UNCHANGED storeVars, sold' = sold,
           NEW l \in Shelf!Existing, NEW row \in Shelf!Listing,
           row.store = listings[l].store, Shelf!Kind(row) = Shelf!Kind(listings[l]),
           listings' = [listings EXCEPT ![l] = row]
    PROVE  StorefrontInv' /\ Shelf!Existing' = Shelf!Existing
           /\ \A x \in DOMAIN listings : listings'[x] = IF x = l THEN row ELSE listings[x]
<1>0. TypeOK
  BY DEF StorefrontInv
<1>1. l \in 1 .. Len(listings) /\ row \in Shelf!Listing \cup {Shelf!Deleted}
  BY <1>0, TableFacts, ExistingIsListing
<1>2. /\ listings' \in Seq(Shelf!Listing \cup {Shelf!Deleted})
      /\ DOMAIN listings' = DOMAIN listings
  BY <1>0, <1>1, TableFacts, ExceptSeq
<1>3. \A x \in DOMAIN listings : listings'[x] = IF x = l THEN row ELSE listings[x]
  BY <1>0, TableFacts
<1>4. Shelf!Existing' = Shelf!Existing
  BY <1>2, <1>3, ListingIsNotDeleted DEF Shelf!Existing
<1>5. sold' \subseteq Shelf!Existing'
  BY <1>4 DEF StorefrontInv, TypeOK, Shelf!TypeOK
<1>6. StorefrontInv'
  BY <1>0, <1>2, <1>3, <1>4, <1>5, ExistingIsListing, TableStep
<1> QED
  BY <1>3, <1>4, <1>6

LEMMA CreateStep ==
    ASSUME StorefrontInv, NEW r \in ListingRequests, UNCHANGED storeVars,
           NEW s \in DOMAIN stores, NEW new \in NewListings, Shelf!CreateListing(r, s, new)
    PROVE  StorefrontInv'
<1> DEFINE columns == [category |-> new.category, root |-> RootOf[new.category],
                       content |-> new.content, stock |-> new.stock,
                       status |-> new.status, moderation |-> "PENDING"]
           stage == Shelf!FirstStage(new.status, {new.category})
           q == [stage |-> stage, op |-> "create", store |-> s,
                 next |-> columns]
<1>1. s \in Nat \ {0}
  BY TableFacts DEF StorefrontInv
<1>2. columns \in Shelf!Columns
  BY StorefrontAssumption DEF Shelf!NewListing, Shelf!Columns, Shelf!ProductListingStatus,
     Shelf!ServiceListingStatus, Shelf!ModerationStatus
<1>3. columns.category = new.category
  OBVIOUS
<1>4. /\ listingReqs' = [listingReqs EXCEPT ![r] = q]
      /\ UNCHANGED <<listings, sold>>
      /\ Offers(s, KindOf[new.category])
  BY DEF Shelf!CreateListing, Shelf!Become, Shelf!RequireCapability, Offers
<1>5. stage \in {"gating", "writing"}
  BY DEF Shelf!FirstStage
<1> HIDE DEF columns, stage
<1>6. /\ q \in Shelf!Request /\ ~Writes(q, "save") /\ q.store = s /\ q.next = columns
  BY <1>1, <1>2, <1>5 DEF Shelf!Request, Writes
<1> HIDE DEF q
<1>7. SourcedBy(q)
  BY <1>3, <1>4, <1>6 DEF SourcedBy
<1> QED
  BY <1>4, <1>6, <1>7, ListingRequestStep

\* An edit or a switch up to the documents: it keeps the kind it has loaded.
LEMMA LoadStep ==
    ASSUME StorefrontInv, NEW r \in ListingRequests, UNCHANGED storeVars,
           NEW l \in Shelf!Existing, NEW columns \in Shelf!Columns,
           NEW stage \in {"gating", "writing"}, NEW hours \in Shelf!Stock \cup {"kept"},
           KindOf[columns.category] = Shelf!Kind(listings[l]),
           listingReqs' = [listingReqs EXCEPT ![r] =
               [stage |-> stage, op |-> "save", id |-> l,
                seen |-> Shelf!ColumnsOf(listings[l]), next |-> columns, hours |-> hours]],
           UNCHANGED <<listings, sold>>
    PROVE  StorefrontInv'
<1> DEFINE seen == Shelf!ColumnsOf(listings[l])
           q == [stage |-> stage, op |-> "save", id |-> l,
                 seen |-> seen, next |-> columns, hours |-> hours]
<1>1. l \in DOMAIN listings /\ l \in Nat \ {0} /\ listings[l] \in Shelf!Listing
  BY TableFacts, ExistingIsListing DEF StorefrontInv
<1>2. seen \in Shelf!Columns /\ seen.category = listings[l].category
  BY <1>1 DEF Shelf!ColumnsOf, Shelf!Columns, Shelf!Listing
<1> HIDE DEF seen
<1>4. /\ q \in Shelf!Request /\ ~Writes(q, "create")
      /\ q.id = l /\ q.seen = seen /\ q.next = columns
  BY <1>1, <1>2 DEF Shelf!Request, Writes
<1>5. listingReqs' = [listingReqs EXCEPT ![r] = q]
  BY DEF seen
<1> HIDE DEF q
<1>6. SourcedBy(q)
  BY <1>2, <1>4 DEF SourcedBy, Shelf!Kind
<1> QED
  BY <1>1, <1>4, <1>5, <1>6, ListingRequestStep

LEMMA EditedFacts ==
    ASSUME NEW row \in Shelf!Listing, NEW edit \in Edits
    PROVE  /\ Shelf!Edited(row, edit) \in Shelf!Columns
           /\ Shelf!Edited(row, edit).moderation = "PENDING"
           /\ Shelf!Hours(row, edit) \in Shelf!Stock \cup {"kept"}
<1>1. edit \in Shelf!Edit
  BY StorefrontAssumption
<1>2. /\ Shelf!Or(edit.category, row.category) \in Categories
      /\ RootOf[Shelf!Or(edit.category, row.category)] \in Categories
      /\ Shelf!Or(edit.content, row.content) \in Contents
      /\ Shelf!Or(edit.stock, row.stock) \in Shelf!Stock
      /\ Shelf!Or(edit.stock, "kept") \in Shelf!Stock \cup {"kept"}
      /\ Shelf!Or(edit.status, row.status) \in Shelf!ProductListingStatus
      /\ row.stock \in Shelf!Stock
  BY <1>1, StorefrontAssumption DEF Shelf!Or, Shelf!Edit, Shelf!Listing, Shelf!ProductListingStatus,
              Shelf!ServiceListingStatus
<1> QED
  BY <1>2 DEF Shelf!Edited, Shelf!Columns, Shelf!ResetModeration, Shelf!ModerationStatus,
              Shelf!Hours

LEMMA SwitchedFacts ==
    ASSUME NEW row \in Shelf!Listing, NEW status \in Shelf!ProductListingStatus
    PROVE  LET columns == [Shelf!ColumnsOf(row) EXCEPT !.status = status]
           IN  /\ columns \in Shelf!Columns
               /\ columns.category = row.category /\ columns.content = row.content
               /\ columns.moderation = row.moderation
BY DEF Shelf!ColumnsOf, Shelf!Columns, Shelf!Listing

\* Whatever was loaded, a save leaves a row of the same store and approval.
LEMMA SavedRowFacts ==
    ASSUME NEW row \in Shelf!Listing, NEW q \in Shelf!Request, Writes(q, "save")
    PROVE  /\ Shelf!SavedRow(row, q) \in Shelf!Listing
           /\ Shelf!SavedRow(row, q).store = row.store
           /\ Shelf!SavedRow(row, q).approved = row.approved
           /\ Shelf!SavedRow(row, q).category \in {q.next.category, row.category}
           /\ Shelf!SavedRow(row, q).category # q.next.category => q.next.category = q.seen.category
<1>1. q.seen \in Shelf!Columns /\ q.next \in Shelf!Columns /\ q.hours \in Shelf!Stock \cup {"kept"}
  BY WriteFacts
<1>2. /\ Shelf!Saved(q.next.category, q.seen.category, row.category) \in Categories
      /\ Shelf!Saved(q.next.root, q.seen.root, row.root) \in Categories
      /\ Shelf!Saved(q.next.content, q.seen.content, row.content) \in Contents
      /\ Shelf!Saved(q.next.stock, q.seen.stock, row.stock) \in Shelf!Stock
      /\ Shelf!Saved(q.next.status, q.seen.status, row.status) \in Shelf!ProductListingStatus
      /\ Shelf!Saved(q.next.moderation, q.seen.moderation, row.moderation) \in Shelf!ModerationStatus
  BY <1>1 DEF Shelf!Columns, Shelf!Listing, Shelf!Saved
<1> QED
  BY <1>1, <1>2 DEF Shelf!SavedRow, Shelf!Listing, Shelf!Saved

LEMMA ListingKeepsInv ==
    ASSUME StorefrontInv, NEW r \in ListingRequests, Shelf!Handle(r), UNCHANGED storeVars
    PROVE  StorefrontInv'
<1>0. /\ TypeOK
      /\ listingReqs[r] \in Shelf!Request
      /\ SourcedBy(listingReqs[r])
  BY DEF StorefrontInv, TypeOK, Shelf!TypeOK, Sourced
<1>1. ASSUME NEW s \in DOMAIN stores, NEW new \in NewListings, Shelf!CreateListing(r, s, new)
      PROVE  StorefrontInv'
  BY <1>1, CreateStep
<1>2. ASSUME Shelf!AssertVerified(r) PROVE StorefrontInv'
  <2> DEFINE q == [listingReqs[r] EXCEPT !.stage = "writing"]
  <2>1. /\ listingReqs[r].stage = "gating" /\ listingReqs[r] # Shelf!Idle
        /\ listingReqs' = [listingReqs EXCEPT ![r] = q]
        /\ UNCHANGED <<listings, sold>>
    BY <1>2 DEF Shelf!AssertVerified, Shelf!Become, Shelf!Idle
  <2>2. /\ q \in Shelf!Request
        /\ \A op \in {"create", "save"} : Writes(q, op) <=> Writes(listingReqs[r], op)
        /\ Writes(q, "create") => q.store = listingReqs[r].store /\ q.next = listingReqs[r].next
        /\ Writes(q, "save") => /\ q.id = listingReqs[r].id /\ q.next = listingReqs[r].next
                                /\ q.seen = listingReqs[r].seen
    BY <1>0, <2>1 DEF Shelf!Request, Writes
  <2> HIDE DEF q
  <2>3. SourcedBy(q)
    BY <1>0, <2>2 DEF SourcedBy
  <2>4. Writes(q, "save") => q.id \in DOMAIN listings
    BY <1>0, <2>2 DEF TypeOK, Shelf!TypeOK, Writes
  <2> QED
    BY <2>1, <2>2, <2>3, <2>4, ListingRequestStep
<1>3. ASSUME Shelf!CommitCreate(r) PROVE StorefrontInv'
  <2> DEFINE q   == listingReqs[r]
             row == Shelf!NewRow(q)
             n   == Len(listings) + 1
  <2>1. /\ Writes(q, "create") /\ sold' = sold
        /\ listings' = Append(listings, row)
        /\ listingReqs' = [listingReqs EXCEPT ![r] = Shelf!Idle]
    BY <1>3 DEF Shelf!CommitCreate, Shelf!Become, Writes
  <2>2. /\ row \in Shelf!Listing /\ row.store = q.store /\ row.category = q.next.category
    BY <1>0, <2>1, WriteFacts DEF Shelf!NewRow, Shelf!Listing, Shelf!Columns
  <2>3. q.store \in DOMAIN stores /\ Offers(row.store, Shelf!Kind(row))
    BY <1>0, <2>1, <2>2 DEF SourcedBy, Shelf!Kind
  <2> HIDE DEF row, q
  <2>4. /\ listings' \in Seq(Shelf!Listing \cup {Shelf!Deleted})
        /\ DOMAIN listings' = 1 .. n /\ listings'[n] = row
        /\ \A l \in DOMAIN listings : listings'[l] = listings[l]
    BY <1>0, <2>1, <2>2, TableFacts, AppendProperties, LenProperties
  <2>5. Shelf!Existing' = Shelf!Existing \cup {n}
    BY <1>0, <2>2, <2>4, TableFacts, ListingIsNotDeleted DEF Shelf!Existing
  <2>6. OnlyEnd /\ sold' \subseteq Shelf!Existing'
    BY <1>0, <2>1, <2>5, EndingOnlyEnds DEF TypeOK, Shelf!TypeOK
  <2> QED
    BY <1>0, <2>2, <2>3, <2>4, <2>5, <2>6, TableFacts, TableStep, ExistingIsListing
<1>4. ASSUME NEW l \in Shelf!Existing, NEW edit \in Edits, Shelf!UpdateListing(r, l, edit)
      PROVE  StorefrontInv'
  <2> DEFINE columns == Shelf!Edited(listings[l], edit)
             hours   == Shelf!Hours(listings[l], edit)
             stage   == Shelf!FirstStage(columns.status, {columns.category})
  <2>1. listings[l] \in Shelf!Listing
    BY <1>0, ExistingIsListing
  <2>2. columns \in Shelf!Columns /\ hours \in Shelf!Stock \cup {"kept"}
    BY <2>1, EditedFacts
  <2>3. /\ KindOf[columns.category] = Shelf!Kind(listings[l])
        /\ listingReqs' = [listingReqs EXCEPT ![r] =
               [stage |-> stage, op |-> "save", id |-> l,
                seen |-> Shelf!ColumnsOf(listings[l]), next |-> columns, hours |-> hours]]
        /\ UNCHANGED <<listings, sold>>
    BY <1>4 DEF Shelf!UpdateListing, Shelf!Become
  <2>4. stage \in {"gating", "writing"}
    BY DEF Shelf!FirstStage
  <2> HIDE DEF columns, hours, stage
  <2> QED
    BY <2>2, <2>3, <2>4, LoadStep
<1>5. ASSUME NEW l \in Shelf!Existing, NEW status \in Shelf!ProductListingStatus,
             Shelf!SetStatus(r, l, status)
      PROVE  StorefrontInv'
  <2> DEFINE columns == [Shelf!ColumnsOf(listings[l]) EXCEPT !.status = status]
             stage   == Shelf!FirstStage(status, {listings[l].category, listings[l].root})
  <2>1. listings[l] \in Shelf!Listing
    BY <1>0, ExistingIsListing
  <2>2. columns \in Shelf!Columns /\ KindOf[columns.category] = Shelf!Kind(listings[l])
    BY <2>1, SwitchedFacts DEF Shelf!Kind
  <2>3. /\ listingReqs' = [listingReqs EXCEPT ![r] =
               [stage |-> stage, op |-> "save", id |-> l,
                seen |-> Shelf!ColumnsOf(listings[l]), next |-> columns, hours |-> "kept"]]
        /\ UNCHANGED <<listings, sold>>
    BY <1>5 DEF Shelf!SetStatus, Shelf!Become
  <2>4. stage \in {"gating", "writing"}
    BY DEF Shelf!FirstStage
  <2> HIDE DEF columns, stage
  <2> QED
    BY <2>2, <2>3, <2>4, LoadStep
<1>6. ASSUME Shelf!CommitSave(r) PROVE StorefrontInv'
  <2> DEFINE q   == listingReqs[r]
             row == Shelf!SavedRow(listings[q.id], q)
  <2>1. /\ Writes(q, "save") /\ q.id \in Shelf!Existing /\ sold' = sold
        /\ listings' = [listings EXCEPT ![q.id] = row]
        /\ listingReqs' = [listingReqs EXCEPT ![r] = Shelf!Idle]
    BY <1>6, <1>0, ExistingIsListing DEF Shelf!CommitSave, Shelf!Become, Writes
  <2>2. /\ row \in Shelf!Listing /\ row.store = listings[q.id].store
        /\ row.category \in {q.next.category, listings[q.id].category}
    BY <1>0, <2>1, SavedRowFacts, ExistingIsListing
  <2>3. Shelf!Kind(row) = Shelf!Kind(listings[q.id])
    BY <1>0, <2>1, <2>2 DEF SourcedBy, Shelf!Kind
  <2>4. OnlyEnd
    BY <1>0, <2>1, EndingOnlyEnds
  <2> HIDE DEF row, q
  <2> QED
    BY <2>1, <2>2, <2>3, <2>4, RowStep
<1>7. ASSUME NEW l \in Shelf!Existing, Shelf!DeleteListing(r, l) PROVE StorefrontInv'
  <2> DEFINE q == [stage |-> "deleting", id |-> l]
  <2>1. listingReqs' = [listingReqs EXCEPT ![r] = q] /\ UNCHANGED <<listings, sold>>
    BY <1>7 DEF Shelf!DeleteListing, Shelf!Become
  <2>2. l \in Nat \ {0}
    BY <1>0, TableFacts, ExistingIsListing
  <2>3. q \in Shelf!Request /\ \A op \in {"create", "save"} : ~Writes(q, op)
    BY <2>2 DEF Shelf!Request, Writes
  <2>4. SourcedBy(q)
    BY <2>3 DEF SourcedBy
  <2> HIDE DEF q
  <2> QED
    BY <2>1, <2>3, <2>4, ListingRequestStep
<1>8. ASSUME Shelf!CommitDelete(r) PROVE StorefrontInv'
  <2> DEFINE l == listingReqs[r].id
  <2>1. /\ l \notin sold /\ sold' = sold
        /\ listings' = [listings EXCEPT ![l] = Shelf!Deleted]
        /\ listingReqs' = [listingReqs EXCEPT ![r] = Shelf!Idle]
    BY <1>8 DEF Shelf!CommitDelete, Shelf!Become
  <2>2. /\ listings' \in Seq(Shelf!Listing \cup {Shelf!Deleted})
        /\ DOMAIN listings' = DOMAIN listings
        /\ \A x \in DOMAIN listings :
              listings'[x] = IF x = l THEN Shelf!Deleted ELSE listings[x]
    <3>1. CASE l \in DOMAIN listings
      BY <1>0, <2>1, <3>1, TableFacts, ExceptSeq
    <3>2. CASE l \notin DOMAIN listings
      <4>1. listings' = listings
        BY <1>0, <2>1, <3>2, TableFacts
      <4> QED
        BY <4>1, <3>2, <1>0, TableFacts
    <3> QED
      BY <3>1, <3>2
  <2>3. Shelf!Existing' = Shelf!Existing \ {l}
    BY <2>2 DEF Shelf!Existing
  <2>4. OnlyEnd /\ sold' \subseteq Shelf!Existing'
    BY <1>0, <2>1, <2>3, EndingOnlyEnds DEF TypeOK, Shelf!TypeOK
  <2> QED
    BY <1>0, <2>2, <2>3, <2>4, TableStep, ExistingIsListing
<1>9. ASSUME Shelf!Fail(r) PROVE StorefrontInv'
  <2>1. SourcedBy(Shelf!Idle)
    BY IdleListing DEF SourcedBy
  <2> QED
    BY <1>9, <2>1, IdleListing, ListingRequestStep DEF Shelf!Fail, Shelf!Become
<1> QED
  BY <1>1, <1>2, <1>3, <1>4, <1>5, <1>6, <1>7, <1>8, <1>9 DEF Shelf!Handle

LEMMA ModerateKeepsInv ==
    ASSUME StorefrontInv, UNCHANGED storeVars, NEW l \in Shelf!Existing,
           NEW verdict \in {"APPROVED", "REJECTED"}, Shelf!Moderate(l, verdict)
    PROVE  /\ StorefrontInv' /\ Shelf!Existing' = Shelf!Existing
           /\ \A x \in Shelf!Existing :
                 /\ listings'[x].store = listings[x].store
                 /\ listings'[x].category = listings[x].category
                 /\ listings'[x].content = listings[x].content
                 /\ listings'[x].status = listings[x].status
                 /\ \/ listings'[x] = listings[x]
                    \/ listings'[x].moderation = "REJECTED"
                    \/ listings'[x].approved = <<listings[x].category, listings[x].content>>
<1> DEFINE row == [listings[l] EXCEPT
                      !.moderation = verdict,
                      !.approved = IF verdict = "APPROVED"
                                   THEN <<listings[l].category, listings[l].content>> ELSE @]
<1>1. listings[l] \in Shelf!Listing /\ l \in DOMAIN listings
  BY ExistingIsListing DEF StorefrontInv
<1>2. /\ row \in Shelf!Listing
      /\ row.store = listings[l].store /\ row.category = listings[l].category
      /\ row.content = listings[l].content /\ row.status = listings[l].status
      /\ \/ row.moderation = "REJECTED"
         \/ row.approved = <<listings[l].category, listings[l].content>>
  BY <1>1 DEF Shelf!Listing, Shelf!ModerationStatus
<1>3. listings' = [listings EXCEPT ![l] = row]
  BY <1>1 DEF Shelf!Moderate, Shelf!Listing
<1>4. OnlyEnd /\ sold' = sold
  BY DEF Shelf!Moderate, OnlyEnd, StorefrontInv, TypeOK, Shelf!TypeOK
<1> HIDE DEF row
<1>5. Shelf!Kind(row) = Shelf!Kind(listings[l])
  BY <1>2 DEF Shelf!Kind
<1>6. /\ StorefrontInv' /\ Shelf!Existing' = Shelf!Existing
      /\ \A x \in DOMAIN listings : listings'[x] = IF x = l THEN row ELSE listings[x]
  BY <1>2, <1>3, <1>4, <1>5, RowStep
<1> QED
  BY <1>2, <1>6, ExistingIsListing DEF StorefrontInv

LEMMA SellKeepsInv ==
    ASSUME StorefrontInv, UNCHANGED storeVars, NEW l \in Shelf!Existing, Shelf!Sell(l)
    PROVE  StorefrontInv'
<1>1. Shelf!Existing' = Shelf!Existing
  BY DEF Shelf!Sell, Shelf!Existing
<1>2. TypeOK'
  BY <1>1 DEF Shelf!Sell, StorefrontInv, TypeOK, Onboarding!TypeOK, Shelf!TypeOK, storeVars
<1> QED
  BY <1>1, <1>2 DEF Shelf!Sell, StorefrontInv, OfferedByItsStore, Shelf!OfferedByItsStore,
     Sourced, SourcedBy, Writes, Offers, Shelf!Kind, storeVars

----------------------------------------------------------------------------
(* Whatever overlaps *)

LEMMA InitKeepsInv == Init => StorefrontInv
<1> SUFFICES ASSUME Init PROVE StorefrontInv
  OBVIOUS
<1>1. /\ stores = <<>> /\ listings = <<>> /\ sold = {}
      /\ linked = [o \in Owners |-> 0]
      /\ onboardingReqs = [r \in OnboardingRequests |-> Onboarding!Idle]
      /\ listingReqs = [r \in ListingRequests |-> Shelf!Idle]
  BY DEF Init, Onboarding!Init, Shelf!Init, Onboarding!NoStore
<1>2. Shelf!Existing = {} /\ DOMAIN stores = {}
  BY <1>1 DEF Shelf!Existing
<1>3. Onboarding!TypeOK
  BY <1>1, <1>2 DEF Onboarding!TypeOK, Onboarding!Request, Onboarding!Idle
<1>4. Shelf!TypeOK
  BY <1>1, <1>2, IdleListing DEF Shelf!TypeOK
<1>5. Sourced
  BY <1>1, IdleListing DEF Sourced, SourcedBy
<1> QED
  BY <1>2, <1>3, <1>4, <1>5 DEF StorefrontInv, TypeOK, OfferedByItsStore, Shelf!OfferedByItsStore

LEMMA NextKeepsInv == StorefrontInv /\ [Next]_vars => StorefrontInv'
<1> SUFFICES ASSUME StorefrontInv, [Next]_vars PROVE StorefrontInv'
  OBVIOUS
<1>1. ASSUME NEW r \in OnboardingRequests, OnboardingStep(r) PROVE StorefrontInv'
  BY <1>1, OnboardingKeepsStores, StoresStep DEF OnboardingStep, StorefrontInv
<1>2. ASSUME NEW r \in ListingRequests, ListingStep(r) PROVE StorefrontInv'
  BY <1>2, ListingKeepsInv DEF ListingStep
<1>3. ASSUME StaffStep PROVE StorefrontInv'
  <2>1. CASE Onboarding!Staff /\ UNCHANGED listingVars
    BY <2>1, StaffKeepStores, StoresStep DEF StorefrontInv
  <2>2. CASE /\ \E l \in Shelf!Existing, verdict \in {"APPROVED", "REJECTED"} :
                   Shelf!Moderate(l, verdict)
             /\ UNCHANGED storeVars
    BY <2>2, ModerateKeepsInv
  <2> QED
    BY <1>3, <2>1, <2>2 DEF StaffStep
<1>4. ASSUME SaleStep PROVE StorefrontInv'
  BY <1>4, SellKeepsInv DEF SaleStep
<1>5. ASSUME UNCHANGED vars PROVE StorefrontInv'
  BY <1>5 DEF vars, storeVars, listingVars, StorefrontInv, TypeOK, Onboarding!TypeOK,
     Shelf!TypeOK, Shelf!Existing, OfferedByItsStore, Shelf!OfferedByItsStore, Sourced,
     SourcedBy, Writes, Offers, Shelf!Kind
<1> QED
  BY <1>1, <1>2, <1>3, <1>4, <1>5 DEF Next

\* Stores, listings and requests keep their types for any constants: every
\* account is linked to its store, every listing has one, and what was sold is
\* never deleted.
THEOREM TypeCorrect == Spec => []TypeOK
<1>1. StorefrontInv => TypeOK
  BY DEF StorefrontInv
<1> QED
  BY <1>1, InitKeepsInv, NextKeepsInv, PTL DEF Spec

\* However onboarding, editing, moderation and failures interleave, a store
\* offers what it lists.
THEOREM ListedIsAlwaysOffered == Spec => []OfferedByItsStore
<1>1. StorefrontInv => OfferedByItsStore
  BY DEF StorefrontInv
<1> QED
  BY <1>1, InitKeepsInv, NextKeepsInv, PTL DEF Spec

----------------------------------------------------------------------------
(* As long as requests take turns *)

\* An approval is of the listing as it stands, also while it is not on offer.
Approved(row) ==
    row.moderation = "APPROVED" => row.approved = <<row.category, row.content>>

Reviewed == \A l \in Shelf!Existing : Approved(listings[l])

\* An edit sends the listing back, or leaves what was reviewed as it loaded it.
Resets(q) ==
    \/ q.next.moderation = "PENDING"
    \/ /\ q.next.category = q.seen.category
       /\ q.next.content = q.seen.content
       /\ q.next.moderation = q.seen.moderation

\* What a request in flight has loaded is what the table still holds.
Honest(q) ==
    /\ Writes(q, "create") => q.next.moderation = "PENDING"
    /\ Writes(q, "save") => /\ q.id \in Shelf!Existing
                            /\ q.seen = Shelf!ColumnsOf(listings[q.id])
                            /\ Resets(q)

\* Whoever is about to write a gated listing on offer has shown the proof.
Proven(q) ==
    q.stage = "writing" /\ Shelf!NeedsProof(q.next.status, {q.next.category})
        => Shelf!Licensed(Shelf!StoreOf(q))

\* A submission in flight is that of a store whose details are not in.
Open(q) ==
    q.stage = "submitting" => stores[q.id].status \in Onboarding!KycEditableStatuses

InTurn ==
    /\ Reviewed
    /\ \A r \in ListingRequests : Honest(listingReqs[r]) /\ Proven(listingReqs[r])
    /\ \A r \in OnboardingRequests : Open(onboardingReqs[r])

TurnInv == StorefrontInv /\ (~overlapped => InTurn)

\* What a step may do while nothing overlaps.
StepsInTurn == Shelf!PublishesWithProof /\ Onboarding!LeavesSettledStores

LEMMA IdleInTurn ==
    /\ Honest(Shelf!Idle) /\ Proven(Shelf!Idle) /\ Open(Onboarding!Idle)
    /\ (Honest(Shelf!Idle) /\ Proven(Shelf!Idle) /\ Open(Onboarding!Idle))'
BY IdleListing DEF Honest, Proven, Open, Shelf!Idle, Onboarding!Idle, Writes

\* A step of onboarding while no listing's request is in flight.
LEMMA OnboardingInTurn ==
    ASSUME StorefrontInv, InTurn, NEW r \in OnboardingRequests,
           Onboarding!Handle(r), Quiet({r}, {}), UNCHANGED listingVars
    PROVE  InTurn' /\ StepsInTurn
<1> USE DEF Onboarding!Become
<1>0. /\ TypeOK
      /\ onboardingReqs \in [OnboardingRequests -> Onboarding!Request]
      /\ Open(onboardingReqs[r])
      /\ \A x \in OnboardingRequests \ {r} : onboardingReqs[x] = Onboarding!Idle
  BY DEF StorefrontInv, TypeOK, Onboarding!TypeOK, InTurn, Quiet
<1>1. Shelf!Existing' = Shelf!Existing
  BY DEF Shelf!Existing, listingVars
<1>2. Reviewed'
  BY <1>1 DEF InTurn, Reviewed, Approved, listingVars
<1>3. ASSUME NEW x \in ListingRequests PROVE (Honest(listingReqs[x]) /\ Proven(listingReqs[x]))'
  <2>1. listingReqs'[x] = Shelf!Idle
    BY DEF Quiet, listingVars
  <2> QED
    BY <2>1, IdleInTurn DEF Honest, Proven, Shelf!Idle, Writes
<1>4. Shelf!PublishesWithProof
  BY <1>1 DEF Shelf!PublishesWithProof, listingVars
<1>5. Open(onboardingReqs[r])' /\ Onboarding!LeavesSettledStores
      /\ \A x \in OnboardingRequests \ {r} : onboardingReqs'[x] = Onboarding!Idle
  <2>1. ASSUME NEW q, onboardingReqs' = [onboardingReqs EXCEPT ![r] = q], q.stage # "submitting",
               \A s \in DOMAIN stores : /\ stores'[s].status = stores[s].status
                                        /\ stores'[s].document = stores[s].document
        PROVE  Open(onboardingReqs[r])' /\ Onboarding!LeavesSettledStores
               /\ \A x \in OnboardingRequests \ {r} : onboardingReqs'[x] = Onboarding!Idle
    BY <1>0, <2>1 DEF Open, Onboarding!LeavesSettledStores
  <2>2. Onboarding!Idle.stage # "submitting"
    BY DEF Onboarding!Idle
  <2>3. ASSUME NEW owner \in Owners, NEW choice \in Onboarding!Choices,
               Onboarding!SelectCapabilities(r, owner, choice)
        PROVE  \E q : /\ onboardingReqs' = [onboardingReqs EXCEPT ![r] = q]
                      /\ q.stage # "submitting" /\ stores' = stores
    <3>1. CASE onboardingReqs' = [onboardingReqs EXCEPT ![r] =
                   [stage |-> "opening", owner |-> owner, offers |-> choice]]
      <4> DEFINE q == [stage |-> "opening", owner |-> owner, offers |-> choice]
      <4>1. q.stage # "submitting"
        OBVIOUS
      <4> QED
        BY <2>3, <3>1, <4>1 DEF Onboarding!SelectCapabilities
    <3>2. ASSUME NEW s \in Onboarding!StoresOf(owner),
                 onboardingReqs' = [onboardingReqs EXCEPT ![r] =
                     [stage |-> "widening", id |-> s, offers |-> choice \ stores[s].offers]]
          PROVE  \E q : /\ onboardingReqs' = [onboardingReqs EXCEPT ![r] = q]
                        /\ q.stage # "submitting" /\ stores' = stores
      <4> DEFINE q == [stage |-> "widening", id |-> s, offers |-> choice \ stores[s].offers]
      <4>1. q.stage # "submitting"
        OBVIOUS
      <4> QED
        BY <2>3, <3>2, <4>1 DEF Onboarding!SelectCapabilities
    <3> QED
      BY <2>3, <3>1, <3>2 DEF Onboarding!SelectCapabilities
  <2>4. ASSUME NEW s \in DOMAIN stores, NEW choice \in Onboarding!Choices,
               Onboarding!EnableCapabilities(r, s, choice)
        PROVE  \E q : /\ onboardingReqs' = [onboardingReqs EXCEPT ![r] = q]
                      /\ q.stage # "submitting" /\ stores' = stores
    <3> DEFINE q == [stage |-> "widening", id |-> s, offers |-> choice \ stores[s].offers]
    <3>1. q.stage # "submitting"
      OBVIOUS
    <3> QED
      BY <2>4, <3>1 DEF Onboarding!EnableCapabilities
  <2>5. ASSUME Onboarding!OpenStore(r)
        PROVE  /\ onboardingReqs' = [onboardingReqs EXCEPT ![r] = Onboarding!Idle]
               /\ \A s \in DOMAIN stores : stores'[s] = stores[s]
    <3>1. PICK row : stores' = Append(stores, row)
      BY <2>5 DEF Onboarding!OpenStore
    <3>2. \A s \in DOMAIN stores : stores'[s] = stores[s]
      BY <1>0, <3>1, TableFacts
    <3> QED
      BY <2>5, <3>2 DEF Onboarding!OpenStore
  <2>6. ASSUME Onboarding!CommitCapabilities(r)
        PROVE  /\ onboardingReqs' = [onboardingReqs EXCEPT ![r] = Onboarding!Idle]
               /\ \A s \in DOMAIN stores : /\ stores'[s].status = stores[s].status
                                           /\ stores'[s].document = stores[s].document
    BY <1>0, <2>6, TableFacts DEF Onboarding!CommitCapabilities, Onboarding!Widened, Onboarding!Store
  <2>7. ASSUME NEW s \in DOMAIN stores, NEW document \in {"NONE", "PENDING"},
               Onboarding!SubmitKyc(r, s, document)
        PROVE  Open(onboardingReqs[r])' /\ Onboarding!LeavesSettledStores
               /\ \A x \in OnboardingRequests \ {r} : onboardingReqs'[x] = Onboarding!Idle
    BY <1>0, <2>7 DEF Onboarding!SubmitKyc, Open, Onboarding!LeavesSettledStores
  <2>8. ASSUME Onboarding!CommitKyc(r)
        PROVE  Open(onboardingReqs[r])' /\ Onboarding!LeavesSettledStores
               /\ \A x \in OnboardingRequests \ {r} : onboardingReqs'[x] = Onboarding!Idle
    <3> DEFINE s == onboardingReqs[r].id
    <3>1. /\ stores[s].status \in {"PENDING_KYC", "REJECTED"}
          /\ onboardingReqs' = [onboardingReqs EXCEPT ![r] = Onboarding!Idle]
      BY <1>0, <2>8 DEF Onboarding!CommitKyc, Open, Onboarding!KycEditableStatuses
    <3>2. \A x \in DOMAIN stores : x # s => stores'[x] = stores[x]
      BY <1>0, <2>8, TableFacts DEF Onboarding!CommitKyc
    <3> HIDE DEF s
    <3> QED
      BY <1>0, <2>2, <3>1, <3>2 DEF Open, Onboarding!LeavesSettledStores
  <2>9. ASSUME Onboarding!Fail(r)
        PROVE  onboardingReqs' = [onboardingReqs EXCEPT ![r] = Onboarding!Idle] /\ stores' = stores
    BY <2>9 DEF Onboarding!Fail
  <2> QED
    BY <2>1, <2>2, <2>3, <2>4, <2>5, <2>6, <2>7, <2>8, <2>9 DEF Onboarding!Handle
<1>6. ASSUME NEW x \in OnboardingRequests PROVE Open(onboardingReqs[x])'
  BY <1>5, IdleInTurn DEF Open
<1> QED
  BY <1>2, <1>3, <1>4, <1>5, <1>6 DEF InTurn, StepsInTurn

\* A listing's request goes on: it has loaded what is there, or shown its proof.
LEMMA LoadInTurn ==
    ASSUME StorefrontInv, InTurn, NEW r \in ListingRequests, Quiet({}, {r}),
           NEW q, Honest(q), Proven(q),
           listingReqs' = [listingReqs EXCEPT ![r] = q], UNCHANGED <<listings, storeVars>>
    PROVE  InTurn' /\ StepsInTurn
<1>1. Shelf!Existing' = Shelf!Existing
  BY DEF Shelf!Existing
<1>2. Reviewed'
  BY <1>1 DEF InTurn, Reviewed, Approved
<1>3. ASSUME NEW x \in ListingRequests PROVE (Honest(listingReqs[x]) /\ Proven(listingReqs[x]))'
  <2>1. listingReqs'[x] = IF x = r THEN q ELSE Shelf!Idle
    BY DEF Quiet, StorefrontInv, TypeOK, Shelf!TypeOK
  <2>2. Honest(listingReqs'[x]) /\ Proven(listingReqs'[x])
    BY <2>1, IdleInTurn
  <2> QED
    BY <1>1, <2>2 DEF Honest, Proven, Writes, Resets, Shelf!ColumnsOf, Shelf!NeedsProof,
       Shelf!Licensed, Shelf!StoreOf, storeVars
<1>4. \A x \in OnboardingRequests : Open(onboardingReqs[x])'
  BY DEF InTurn, Open, storeVars
<1>5. StepsInTurn
  BY <1>1 DEF StepsInTurn, Shelf!PublishesWithProof, Onboarding!LeavesSettledStores, storeVars
<1> QED
  BY <1>2, <1>3, <1>4, <1>5 DEF InTurn

\* It ends: what it wrote was reviewed, and has its proof.
LEMMA WriteInTurn ==
    ASSUME StorefrontInv, InTurn, NEW r \in ListingRequests, Quiet({}, {r}),
           listingReqs' = [listingReqs EXCEPT ![r] = Shelf!Idle], UNCHANGED storeVars,
           \A l \in Shelf!Existing' :
               \/ l \in Shelf!Existing /\ listings'[l] = listings[l]
               \/ /\ Approved(listings'[l])
                  /\ Shelf!OnOfferGated(listings'[l]) => Shelf!Licensed(listings'[l].store)
    PROVE  InTurn' /\ StepsInTurn
<1>1. Reviewed'
  BY DEF InTurn, Reviewed, Approved
<1>2. ASSUME NEW x \in ListingRequests PROVE (Honest(listingReqs[x]) /\ Proven(listingReqs[x]))'
  <2>1. listingReqs'[x] = Shelf!Idle
    BY DEF Quiet, StorefrontInv, TypeOK, Shelf!TypeOK
  <2> QED
    BY <2>1, IdleInTurn DEF Honest, Proven, Shelf!Idle, Writes
<1>3. \A x \in OnboardingRequests : Open(onboardingReqs[x])'
  BY DEF InTurn, Open, storeVars
<1>4. StepsInTurn
  BY DEF StepsInTurn, Shelf!PublishesWithProof, Shelf!OnOfferGated,
     Onboarding!LeavesSettledStores, storeVars
<1> QED
  BY <1>1, <1>2, <1>3, <1>4 DEF InTurn

LEMMA ListingInTurn ==
    ASSUME StorefrontInv, InTurn, NEW r \in ListingRequests,
           Shelf!Handle(r), Quiet({}, {r}), UNCHANGED storeVars
    PROVE  InTurn' /\ StepsInTurn
<1>0. /\ TypeOK
      /\ listingReqs[r] \in Shelf!Request
      /\ Honest(listingReqs[r]) /\ Proven(listingReqs[r])
  BY DEF StorefrontInv, TypeOK, Shelf!TypeOK, InTurn
<1> USE DEF Shelf!Become
<1>1. ASSUME NEW s \in DOMAIN stores, NEW new \in NewListings, Shelf!CreateListing(r, s, new)
      PROVE  InTurn' /\ StepsInTurn
  <2> DEFINE columns == [category |-> new.category, root |-> RootOf[new.category],
                         content |-> new.content, stock |-> new.stock,
                         status |-> new.status, moderation |-> "PENDING"]
             q == [stage |-> Shelf!FirstStage(new.status, {new.category}), op |-> "create", store |-> s,
                   next |-> columns]
  <2>1. /\ listingReqs' = [listingReqs EXCEPT ![r] = q]
        /\ UNCHANGED <<listings, sold>>
    BY <1>1 DEF Shelf!CreateListing
  <2>2. Honest(q)
    BY DEF Honest, Writes
  <2>3. Proven(q)
    BY DEF Proven, Shelf!FirstStage
  <2> HIDE DEF q
  <2> QED
    BY <2>1, <2>2, <2>3, LoadInTurn
<1>2. ASSUME Shelf!AssertVerified(r) PROVE InTurn' /\ StepsInTurn
  <2> DEFINE p == listingReqs[r]
             q == [p EXCEPT !.stage = "writing"]
  <2>1. /\ p.stage = "gating" /\ Shelf!Licensed(Shelf!StoreOf(p))
        /\ listingReqs' = [listingReqs EXCEPT ![r] = q]
        /\ UNCHANGED <<listings, sold>>
    BY <1>2 DEF Shelf!AssertVerified
  <2>2. /\ q.op = p.op /\ q.stage = "writing"
        /\ p.op = "create" => q.store = p.store /\ q.next = p.next
        /\ p.op = "save" => q.id = p.id /\ q.seen = p.seen /\ q.next = p.next
        /\ p.op \in {"create", "save"}
    BY <1>0, <2>1 DEF Shelf!Request, Shelf!Idle
  <2> HIDE DEF q
  <2>3. Honest(q)
    BY <1>0, <2>1, <2>2 DEF Honest, Writes, Resets
  <2>4. Proven(q)
    BY <2>1, <2>2 DEF Proven, Shelf!StoreOf
  <2> QED
    BY <2>1, <2>3, <2>4, LoadInTurn
<1>3. ASSUME Shelf!CommitCreate(r) PROVE InTurn' /\ StepsInTurn
  <2> DEFINE q   == listingReqs[r]
             row == Shelf!NewRow(q)
  <2>1. /\ q.stage = "writing" /\ q.op = "create" /\ Writes(q, "create")
        /\ listings' = Append(listings, row)
        /\ listingReqs' = [listingReqs EXCEPT ![r] = Shelf!Idle]
    BY <1>3 DEF Shelf!CommitCreate, Writes
  <2>2. Approved(row)
    BY <1>0, <2>1 DEF Honest, Approved, Shelf!NewRow
  <2>3. Shelf!OnOfferGated(row) => Shelf!Licensed(row.store)
    BY <1>0, <2>1 DEF Proven, Shelf!NewRow, Shelf!OnOfferGated, Shelf!NeedsProof, Shelf!StoreOf
  <2> HIDE DEF row, q
  <2>4. /\ DOMAIN listings' = 1 .. Len(listings) + 1 /\ listings'[Len(listings) + 1] = row
        /\ \A l \in DOMAIN listings : listings'[l] = listings[l]
    BY <1>0, <2>1, TableFacts
  <2>5. ASSUME NEW l \in Shelf!Existing'
        PROVE  \/ l \in Shelf!Existing /\ listings'[l] = listings[l]
               \/ listings'[l] = row
    <3>1. l \in DOMAIN listings \/ l = Len(listings) + 1
      BY <1>0, <2>4, TableFacts DEF Shelf!Existing
    <3> QED
      BY <2>4, <3>1 DEF Shelf!Existing
  <2> QED
    BY <2>1, <2>2, <2>3, <2>5, WriteInTurn
<1>4. ASSUME NEW l \in Shelf!Existing, NEW edit \in Edits, Shelf!UpdateListing(r, l, edit)
      PROVE  InTurn' /\ StepsInTurn
  <2> DEFINE columns == Shelf!Edited(listings[l], edit)
             hours   == Shelf!Hours(listings[l], edit)
             q == [stage |-> Shelf!FirstStage(columns.status, {columns.category}),
                   op |-> "save", id |-> l,
                   seen |-> Shelf!ColumnsOf(listings[l]), next |-> columns, hours |-> hours]
  <2>1. listingReqs' = [listingReqs EXCEPT ![r] = q] /\ UNCHANGED <<listings, sold>>
    BY <1>4 DEF Shelf!UpdateListing
  <2>2. columns.moderation = "PENDING"
    BY <1>0, ExistingIsListing, EditedFacts
  <2> HIDE DEF columns, hours
  <2>3. Honest(q)
    BY <2>2 DEF Honest, Writes, Resets
  <2>4. Proven(q)
    BY DEF Proven, Shelf!FirstStage
  <2> HIDE DEF q
  <2> QED
    BY <2>1, <2>3, <2>4, LoadInTurn
<1>5. ASSUME NEW l \in Shelf!Existing, NEW status \in Shelf!ProductListingStatus,
             Shelf!SetStatus(r, l, status)
      PROVE  InTurn' /\ StepsInTurn
  <2> DEFINE seen    == Shelf!ColumnsOf(listings[l])
             columns == [seen EXCEPT !.status = status]
             q == [stage |-> Shelf!FirstStage(status, {listings[l].category, listings[l].root}),
                   op |-> "save", id |-> l, seen |-> seen, next |-> columns, hours |-> "kept"]
  <2>1. listingReqs' = [listingReqs EXCEPT ![r] = q] /\ UNCHANGED <<listings, sold>>
    BY <1>5 DEF Shelf!SetStatus
  <2>2. /\ columns.category = seen.category /\ columns.content = seen.content
        /\ columns.moderation = seen.moderation
        /\ columns.status = status /\ seen.category = listings[l].category
    BY DEF Shelf!ColumnsOf
  <2> HIDE DEF columns, seen
  <2>3. Honest(q)
    BY <2>2 DEF Honest, Writes, Resets, seen
  <2>4. Proven(q)
    BY <2>2 DEF Proven, Shelf!FirstStage, Shelf!NeedsProof
  <2> HIDE DEF q
  <2> QED
    BY <2>1, <2>3, <2>4, LoadInTurn
<1>6. ASSUME Shelf!CommitSave(r) PROVE InTurn' /\ StepsInTurn
  <2> DEFINE q   == listingReqs[r]
             old == listings[q.id]
             row == Shelf!SavedRow(old, q)
  <2>1. /\ q.stage = "writing" /\ q.op = "save" /\ Writes(q, "save")
        /\ q.id \in Shelf!Existing /\ old \in Shelf!Listing
        /\ listings' = [listings EXCEPT ![q.id] = row]
        /\ listingReqs' = [listingReqs EXCEPT ![r] = Shelf!Idle]
    BY <1>0, <1>6, ExistingIsListing DEF Shelf!CommitSave, Writes
  <2>2. q.seen = Shelf!ColumnsOf(old) /\ Resets(q) /\ Approved(old)
    BY <1>0, <2>1 DEF Honest, InTurn, Reviewed
  <2>3. /\ row.category = q.next.category /\ row.content = q.next.content
        /\ row.status = q.next.status /\ row.moderation = q.next.moderation
        /\ row.store = old.store /\ row.approved = old.approved
    BY <2>1, <2>2 DEF Shelf!SavedRow, Shelf!Saved, Shelf!ColumnsOf, Shelf!Listing
  <2>4. Shelf!OnOfferGated(row) => Shelf!Licensed(row.store)
    BY <1>0, <2>1, <2>3 DEF Proven, Shelf!OnOfferGated, Shelf!NeedsProof, Shelf!StoreOf
  <2>5. Approved(row)
    BY <2>2, <2>3 DEF Approved, Resets, Shelf!ColumnsOf
  <2> HIDE DEF row, q
  <2>6. \A l \in Shelf!Existing' :
           \/ l \in Shelf!Existing /\ listings'[l] = listings[l]
           \/ listings'[l] = row
    BY <1>0, <2>1, TableFacts DEF Shelf!Existing
  <2> QED
    BY <2>1, <2>4, <2>5, <2>6, WriteInTurn
<1>7. ASSUME NEW l \in Shelf!Existing, Shelf!DeleteListing(r, l)
      PROVE  InTurn' /\ StepsInTurn
  <2> DEFINE q == [stage |-> "deleting", id |-> l]
  <2>1. listingReqs' = [listingReqs EXCEPT ![r] = q] /\ UNCHANGED <<listings, sold>>
    BY <1>7 DEF Shelf!DeleteListing
  <2>2. Honest(q) /\ Proven(q)
    BY DEF Honest, Proven, Writes
  <2> HIDE DEF q
  <2> QED
    BY <2>1, <2>2, LoadInTurn
<1>8. ASSUME Shelf!CommitDelete(r) PROVE InTurn' /\ StepsInTurn
  <2>1. /\ listings' = [listings EXCEPT ![listingReqs[r].id] = Shelf!Deleted]
        /\ listingReqs' = [listingReqs EXCEPT ![r] = Shelf!Idle]
    BY <1>8 DEF Shelf!CommitDelete
  <2>2. \A l \in Shelf!Existing' : l \in Shelf!Existing /\ listings'[l] = listings[l]
    BY <1>0, <2>1, TableFacts DEF Shelf!Existing
  <2> QED
    BY <2>1, <2>2, WriteInTurn
<1>9. ASSUME Shelf!Fail(r) PROVE InTurn' /\ StepsInTurn
  BY <1>9, IdleInTurn, LoadInTurn DEF Shelf!Fail
<1> QED
  BY <1>1, <1>2, <1>3, <1>4, <1>5, <1>6, <1>7, <1>8, <1>9 DEF Shelf!Handle

\* Staff, while nothing is in flight.
LEMMA StaffInTurn ==
    ASSUME StorefrontInv, InTurn, StaffStep, Quiet({}, {})
    PROVE  InTurn' /\ StepsInTurn
<1>1. UNCHANGED <<onboardingReqs, listingReqs>>
  <2>1. CASE Onboarding!Staff /\ UNCHANGED listingVars
    BY <2>1, StaffKeepStores DEF listingVars, StorefrontInv
  <2>2. CASE (\E l \in Shelf!Existing, verdict \in {"APPROVED", "REJECTED"} :
                 Shelf!Moderate(l, verdict)) /\ UNCHANGED storeVars
    BY <2>2 DEF Shelf!Moderate, storeVars
  <2> QED
    BY <2>1, <2>2 DEF StaffStep
<1>2. ASSUME NEW x \in ListingRequests PROVE (Honest(listingReqs[x]) /\ Proven(listingReqs[x]))'
  <2>1. listingReqs'[x] = Shelf!Idle
    BY <1>1 DEF Quiet
  <2> QED
    BY <2>1, IdleInTurn DEF Honest, Proven, Shelf!Idle, Writes
<1>3. ASSUME NEW x \in OnboardingRequests PROVE Open(onboardingReqs[x])'
  <2>1. onboardingReqs'[x] = Onboarding!Idle
    BY <1>1 DEF Quiet
  <2> QED
    BY <2>1, IdleInTurn DEF Open
<1>4. Onboarding!LeavesSettledStores
  BY <1>1 DEF Onboarding!LeavesSettledStores
<1>5. Reviewed' /\ Shelf!PublishesWithProof
  <2>1. CASE Onboarding!Staff /\ UNCHANGED listingVars
    <3>1. Shelf!Existing' = Shelf!Existing
      BY <2>1 DEF Shelf!Existing, listingVars
    <3> QED
      BY <2>1, <3>1 DEF InTurn, Reviewed, Approved, Shelf!PublishesWithProof, listingVars
  <2>2. CASE (\E l \in Shelf!Existing, verdict \in {"APPROVED", "REJECTED"} :
                 Shelf!Moderate(l, verdict)) /\ UNCHANGED storeVars
    <3>1. PICK l \in Shelf!Existing, verdict \in {"APPROVED", "REJECTED"} :
             Shelf!Moderate(l, verdict) /\ UNCHANGED storeVars
      BY <2>2
    <3>2. /\ Shelf!Existing' = Shelf!Existing
          /\ \A x \in Shelf!Existing :
                /\ listings'[x].category = listings[x].category
                /\ listings'[x].content = listings[x].content
                /\ listings'[x].status = listings[x].status
                /\ \/ listings'[x] = listings[x]
                   \/ listings'[x].moderation = "REJECTED"
                   \/ listings'[x].approved = <<listings[x].category, listings[x].content>>
      BY <3>1, ModerateKeepsInv
    <3> QED
      BY <3>2 DEF InTurn, Reviewed, Approved, Shelf!PublishesWithProof, Shelf!OnOfferGated
  <2> QED
    BY <2>1, <2>2 DEF StaffStep
<1> QED
  BY <1>2, <1>3, <1>4, <1>5 DEF InTurn, StepsInTurn

LEMMA NothingChangesInTurn ==
    ASSUME InTurn, UNCHANGED <<listings, listingReqs, storeVars>>
    PROVE  InTurn' /\ StepsInTurn
<1>1. Shelf!Existing' = Shelf!Existing
  BY DEF Shelf!Existing
<1> QED
  BY <1>1 DEF InTurn, Reviewed, Approved, Honest, Proven, Open, Writes, Resets,
     Shelf!ColumnsOf, Shelf!NeedsProof, Shelf!Licensed, Shelf!StoreOf, StepsInTurn,
     Shelf!PublishesWithProof, Onboarding!LeavesSettledStores, storeVars

LEMMA InitInTurn == Init => TurnInv
<1> SUFFICES ASSUME Init PROVE InTurn
  BY InitKeepsInv DEF TurnInv
<1>1. /\ listings = <<>>
      /\ \A r \in OnboardingRequests : onboardingReqs[r] = Onboarding!Idle
      /\ \A r \in ListingRequests : listingReqs[r] = Shelf!Idle
  BY DEF Init, Onboarding!Init, Shelf!Init
<1>2. Shelf!Existing = {}
  BY <1>1 DEF Shelf!Existing
<1> QED
  BY <1>1, <1>2, IdleInTurn DEF InTurn, Reviewed

LEMMA NextInTurn ==
    TurnInv /\ [Next]_vars => TurnInv' /\ (~overlapped' => StepsInTurn)
<1> SUFFICES ASSUME TurnInv, [Next]_vars, ~overlapped'
             PROVE  InTurn' /\ StepsInTurn
  BY NextKeepsInv DEF TurnInv
<1>0. StorefrontInv
  BY DEF TurnInv
<1>1. ASSUME NEW r \in OnboardingRequests, OnboardingStep(r) PROVE InTurn' /\ StepsInTurn
  BY <1>0, <1>1, OnboardingInTurn DEF OnboardingStep, TurnInv
<1>2. ASSUME NEW r \in ListingRequests, ListingStep(r) PROVE InTurn' /\ StepsInTurn
  BY <1>0, <1>2, ListingInTurn DEF ListingStep, TurnInv
<1>3. ASSUME StaffStep PROVE InTurn' /\ StepsInTurn
  <2>1. ~overlapped /\ Quiet({}, {})
    BY <1>3 DEF StaffStep
  <2> QED
    BY <1>0, <1>3, <2>1, StaffInTurn DEF TurnInv
<1>4. ASSUME SaleStep PROVE InTurn' /\ StepsInTurn
  BY <1>4, NothingChangesInTurn DEF SaleStep, Shelf!Sell, TurnInv
<1>5. ASSUME UNCHANGED vars PROVE InTurn' /\ StepsInTurn
  BY <1>5, NothingChangesInTurn DEF vars, listingVars, TurnInv
<1> QED
  BY <1>1, <1>2, <1>3, <1>4, <1>5 DEF Next

\* Until requests, or staff, overlap for the first time, customers see nothing
\* that staff have not approved as it stands.
THEOREM PublishedIsAlwaysReviewedInTurn == Spec => []PublishedIsReviewedInTurn
<1>1. TurnInv => PublishedIsReviewedInTurn
  BY DEF TurnInv, InTurn, Reviewed, Approved, PublishedIsReviewedInTurn,
     Shelf!PublishedIsReviewed, Shelf!IsPubliclyVisible
<1> QED
  BY <1>1, InitInTurn, NextInTurn, PTL DEF Spec

\* Until then, by no way of creating, editing, moving or switching it on does a
\* listing of a gated category go on offer without an approved document.
THEOREM ProofIsAlwaysAskedInTurn == Spec => PublishesWithProofInTurn
<1>1. TurnInv /\ [Next]_vars => [~overlapped' => Shelf!PublishesWithProof]_vars
  BY NextInTurn DEF StepsInTurn
<1> QED
  BY <1>1, InitInTurn, NextInTurn, PTL DEF Spec, PublishesWithProofInTurn

\* Until then, only staff change the status or the documents of a store whose
\* details are in.
THEOREM SettledIsStaffsInTurn == Spec => SettledStoresAreStaffsInTurn
<1>1. TurnInv /\ [Next]_vars => [~overlapped' => Onboarding!LeavesSettledStores]_vars
  BY NextInTurn DEF StepsInTurn
<1> QED
  BY <1>1, InitInTurn, NextInTurn, PTL DEF Spec, SettledStoresAreStaffsInTurn

=============================================================================
