-------------------------- MODULE PartnerListings --------------------------
(***************************************************************************)
(* What a partner sells: services/partner/listing.service.js over          *)
(* listing.repository.js, behind requireCapability.                        *)
(*                                                                         *)
(* A handler loads the listing and its category, counts the store's        *)
(* approved documents when the category is gated, and saves relative to    *)
(* the instance it loaded (Sequelize!Saved).  Moderation and the orders    *)
(* and bookings that point at a listing come from outside the repository.  *)
(***************************************************************************)
EXTENDS Naturals, Sequences, FiniteSets, Sequelize

CONSTANTS
    Categories,     \* product tags and service categories
    KindOf,         \* the half of the taxonomy a category belongs to
    RootOf,         \* the root a product tag files under; a service is its own
    Gated,          \* the categories that require verification
    Contents,       \* what a listing says of itself, its answers included
    Fits,           \* the contents buildAttributes accepts, by category
    NewListings,    \* the columns a partner may create a listing with
    Edits,          \* the bodies of a PATCH
    NoContent,      \* stands for a listing staff have not approved
    Requests,       \* the requests that may be in flight at one time
    MaxListings     \* bound: the listings that are created

ListingType          == {"PRODUCT", "SERVICE"}
ModerationStatus     == {"PENDING", "APPROVED", "REJECTED"}
ServiceListingStatus == {"DRAFT", "ACTIVE", "PAUSED"}
ProductListingStatus == ServiceListingStatus \cup {"OUT_OF_STOCK"}

\* PartnerCapability of each half of the Listings tab.
CapabilityFor == [PRODUCT |-> "PRODUCTS", SERVICE |-> "SERVICES"]

\* "full": the product has photos and stock, or the service has hours.
Stock == {"full", "empty"}

NewListing == [category : Categories, content : Contents, stock : Stock,
               status : {"DRAFT", "ACTIVE"}]

\* The fields a PATCH carries; the others keep the value that was loaded.
Edit == [category : Categories \cup {"unset"}, content : Contents \cup {"unset"},
         stock : Stock \cup {"unset"}, status : {"DRAFT", "ACTIVE", "unset"}]

VARIABLES
    stores,     \* the stores, kept by PartnerStore
    listings,   \* both listing tables, in order of creation
    sold,       \* the listings that orders or bookings point at
    reqs        \* what each request in flight holds

listingVars == <<listings, sold, reqs>>

----------------------------------------------------------------------------
(* Rows and requests *)

\* approved is no column: it is what staff saw when they last approved.
\* Of a product, category is the tag and root the category.
Listing == [store : Nat \ {0}, category : Categories, root : Categories,
            content : Contents, stock : Stock,
            status : ProductListingStatus, moderation : ModerationStatus,
            approved : (Categories \X Contents) \cup {NoContent}]

Deleted == [status |-> "DELETED"]

\* The columns a save may write.
Columns == [category : Categories, root : Categories, content : Contents, stock : Stock,
            status : ProductListingStatus, moderation : ModerationStatus]

Idle == [stage |-> "idle"]

\* A request in "gating" has yet to count the approved documents. hours is
\* what becomes of a service's availability grid.
Request == {Idle}
    \cup [stage : {"gating", "writing"}, op : {"create"}, store : Nat \ {0}, next : Columns]
    \cup [stage : {"gating", "writing"}, op : {"save"}, id : Nat \ {0}, seen : Columns,
          next : Columns, hours : Stock \cup {"kept"}]
    \cup [stage : {"deleting"}, id : Nat \ {0}]

Become(r, request) == reqs' = [reqs EXCEPT ![r] = request]

Kind(row) == KindOf[row.category]

Existing == {l \in DOMAIN listings : listings[l] # Deleted}

ColumnsOf(row) == [category |-> row.category, root |-> row.root,
                   content |-> row.content, stock |-> row.stock,
                   status |-> row.status, moderation |-> row.moderation]

\* isPubliclyVisible, the two-part publish gate.
IsPubliclyVisible(row) == row.status = "ACTIVE" /\ row.moderation = "APPROVED"

----------------------------------------------------------------------------
(* The rules a request is held against *)

\* requireCapability(kind), for the session's own store.
RequireCapability(s, kind) == CapabilityFor[kind] \in stores[s].offers

\* buildAttributes: the answers satisfy the category's fields.
BuildAttributes(category, content) == content \in Fits[category]

\* assertVerifiedFor has documents to count: one of the categories is gated.
NeedsProof(status, categories) == status = "ACTIVE" /\ categories \cap Gated # {}

FirstStage(status, categories) ==
    IF NeedsProof(status, categories) THEN "gating" ELSE "writing"

\* Some KYC document of the store is approved.
Licensed(s) == stores[s].document = "APPROVED"

----------------------------------------------------------------------------
(* Creating *)

Init ==
    /\ listings = <<>>
    /\ sold = {}
    /\ reqs = [r \in Requests |-> Idle]

\* createProduct and createService, up to the documents the tag needs.
CreateListing(r, s, new) ==
    /\ reqs[r] = Idle
    /\ RequireCapability(s, KindOf[new.category])
    /\ BuildAttributes(new.category, new.content)
    /\ LET columns == [category |-> new.category, root |-> RootOf[new.category],
                       content |-> new.content, stock |-> new.stock,
                       status |-> new.status, moderation |-> "PENDING"] IN
          Become(r, [stage |-> FirstStage(new.status, {new.category}), op |-> "create", store |-> s,
                     next |-> columns])
    /\ UNCHANGED <<listings, sold>>

\* The store whose documents count: the one that acts, and so the row's.
StoreOf(q) == IF q.op = "create" THEN q.store ELSE listings[q.id].store

\* assertVerifiedFor
AssertVerified(r) ==
    /\ reqs[r].stage = "gating"
    /\ reqs[r].op = "save" => reqs[r].id \in Existing
    /\ Licensed(StoreOf(reqs[r]))
    /\ Become(r, [reqs[r] EXCEPT !.stage = "writing"])
    /\ UNCHANGED <<listings, sold>>

NewRow(q) ==
    [store |-> q.store, category |-> q.next.category, root |-> q.next.root,
     content |-> q.next.content, stock |-> q.next.stock, status |-> q.next.status, moderation |-> q.next.moderation,
     approved |-> NoContent]

\* The row, and the availability grid of a service with it.
CommitCreate(r) ==
    /\ reqs[r].stage = "writing" /\ reqs[r].op = "create"
    /\ Len(listings) < MaxListings
    /\ listings' = Append(listings, NewRow(reqs[r]))
    /\ Become(r, Idle)
    /\ UNCHANGED sold

----------------------------------------------------------------------------
(* Editing *)

Or(asked, loaded) == IF asked = "unset" THEN loaded ELSE asked

\* Mutant: an edit leaves the moderators' verdict alone.
KeptModeration(row) == row.moderation

\* MODERATION_RESET
ResetModeration(row) == "PENDING"

\* What an edit makes of the columns; a service's hours are rows of their own.
Edited(row, edit) ==
    [category   |-> Or(edit.category, row.category),
     root       |-> RootOf[Or(edit.category, row.category)],
     content    |-> Or(edit.content, row.content),
     stock      |-> IF Kind(row) = "PRODUCT" THEN Or(edit.stock, row.stock) ELSE row.stock,
     status     |-> Or(edit.status, row.status),
     moderation |-> ResetModeration(row)]

Hours(row, edit) == IF Kind(row) = "SERVICE" THEN Or(edit.stock, "kept") ELSE "kept"

\* Mutant: proof is asked for when the request publishes, not when a listing
\* that is on offer moves into a gated category.
UpdateGatedByRequest(r, l, edit) ==
    /\ reqs[r] = Idle
    /\ LET row == listings[l]
           columns == Edited(row, edit) IN
          /\ RequireCapability(row.store, Kind(row))
          /\ KindOf[columns.category] = Kind(row)
          /\ BuildAttributes(columns.category, columns.content)
          /\ Become(r, [stage |-> IF edit.status = "ACTIVE"
                                  THEN FirstStage(columns.status, {columns.category})
                                  ELSE "writing",
                        op |-> "save", id |-> l, seen |-> ColumnsOf(row),
                        next |-> columns, hours |-> Hours(row, edit)])
    /\ UNCHANGED <<listings, sold>>

\* updateProduct and updateService, up to the documents.
UpdateListing(r, l, edit) ==
    /\ reqs[r] = Idle
    /\ LET row == listings[l]
           columns == Edited(row, edit) IN
          /\ RequireCapability(row.store, Kind(row))
          /\ KindOf[columns.category] = Kind(row)
          /\ BuildAttributes(columns.category, columns.content)
          /\ Become(r, [stage |-> FirstStage(columns.status, {columns.category}),
                        op |-> "save", id |-> l, seen |-> ColumnsOf(row), next |-> columns,
                        hours |-> Hours(row, edit)])
    /\ UNCHANGED <<listings, sold>>

StatusesOf(kind) == IF kind = "PRODUCT" THEN ProductListingStatus ELSE ServiceListingStatus

\* setProductStatus and setServiceStatus, up to the documents, which the root of a
\* product may need as well as its tag.
SetStatus(r, l, status) ==
    /\ reqs[r] = Idle
    /\ LET row == listings[l]
           columns == [ColumnsOf(row) EXCEPT !.status = status] IN
          /\ RequireCapability(row.store, Kind(row))
          /\ status \in StatusesOf(Kind(row))
          /\ status = "ACTIVE" => row.stock = "full"
          /\ Become(r, [stage |-> FirstStage(status, {row.category, row.root}),
                        op |-> "save", id |-> l,
                        seen |-> ColumnsOf(row), next |-> columns, hours |-> "kept"])
    /\ UNCHANGED <<listings, sold>>

\* The row after the save, on top of what it holds by then.
SavedRow(row, q) ==
    [row EXCEPT !.category   = Saved(q.next.category, q.seen.category, row.category),
                !.root       = Saved(q.next.root, q.seen.root, row.root),
                !.content    = Saved(q.next.content, q.seen.content, row.content),
                !.stock      = IF q.hours = "kept"
                               THEN Saved(q.next.stock, q.seen.stock, row.stock)
                               ELSE q.hours,
                !.status     = Saved(q.next.status, q.seen.status, row.status),
                !.moderation = Saved(q.next.moderation, q.seen.moderation, row.moderation)]

CommitSave(r) ==
    /\ reqs[r].stage = "writing" /\ reqs[r].op = "save"
    /\ reqs[r].id \in Existing
    /\ listings' = [listings EXCEPT ![reqs[r].id] = SavedRow(@, reqs[r])]
    /\ Become(r, Idle)
    /\ UNCHANGED sold

----------------------------------------------------------------------------
(* Deleting *)

\* deleteProduct and deleteService: nothing was ever sold of it.
DeleteListing(r, l) ==
    /\ reqs[r] = Idle
    /\ RequireCapability(listings[l].store, Kind(listings[l]))
    /\ l \notin sold
    /\ Become(r, [stage |-> "deleting", id |-> l])
    /\ UNCHANGED <<listings, sold>>

\* Mutant: nothing refers to the listings table.
CommitDeleteUnreferenced(r) ==
    /\ reqs[r].stage = "deleting"
    /\ listings' = [listings EXCEPT ![reqs[r].id] = Deleted]
    /\ Become(r, Idle)
    /\ UNCHANGED sold

\* The foreign keys of order_items and bookings (ON DELETE RESTRICT) refuse a
\* listing that was sold in between; a second deletion finds nothing.
CommitDelete(r) ==
    /\ reqs[r].stage = "deleting"
    /\ reqs[r].id \notin sold
    /\ listings' = [listings EXCEPT ![reqs[r].id] = Deleted]
    /\ Become(r, Idle)
    /\ UNCHANGED sold

\* The request is refused, or dies, or its row has gone.
Fail(r) ==
    /\ reqs[r] # Idle
    /\ Become(r, Idle)
    /\ UNCHANGED <<listings, sold>>

Handle(r) ==
    \/ \E s \in DOMAIN stores, new \in NewListings : CreateListing(r, s, new)
    \/ AssertVerified(r)
    \/ CommitCreate(r)
    \/ \E l \in Existing, edit \in Edits : UpdateListing(r, l, edit)
    \/ \E l \in Existing, status \in ProductListingStatus : SetStatus(r, l, status)
    \/ CommitSave(r)
    \/ \E l \in Existing : DeleteListing(r, l)
    \/ CommitDelete(r)
    \/ Fail(r)

----------------------------------------------------------------------------
(* Petza staff and customers *)

Moderate(l, verdict) ==
    /\ listings' = [listings EXCEPT
          ![l].moderation = verdict,
          ![l].approved = IF verdict = "APPROVED"
                          THEN <<listings[l].category, listings[l].content>> ELSE @]
    /\ UNCHANGED <<sold, reqs>>

Sell(l) ==
    /\ IsPubliclyVisible(listings[l])
    /\ sold' = sold \cup {l}
    /\ UNCHANGED <<listings, reqs>>

----------------------------------------------------------------------------
(* Properties *)

\* Every variable holds what its table or its handler can hold, every listing
\* has its store, and what was sold still exists.
TypeOK ==
    /\ listings \in Seq(Listing \cup {Deleted})
    /\ sold \subseteq Existing
    /\ reqs \in [Requests -> Request]
    /\ \A l \in Existing : listings[l].store \in DOMAIN stores
    /\ \A r \in Requests : reqs[r].stage \in {"gating", "writing"} /\ reqs[r].op = "save"
                               => reqs[r].id \in DOMAIN listings

\* A store never holds a listing of a kind it does not offer, so that no order
\* or booking is ever left without the screens that serve it.
OfferedByItsStore ==
    \A l \in Existing : CapabilityFor[Kind(listings[l])] \in stores[listings[l].store].offers

\* Customers see nothing that staff have not approved as it stands.
PublishedIsReviewed ==
    \A l \in Existing : IsPubliclyVisible(listings[l]) =>
        listings[l].approved = <<listings[l].category, listings[l].content>>

\* On offer in a gated category.
OnOfferGated(row) == row.status = "ACTIVE" /\ row.category \in Gated

\* A step that puts a listing on offer in a gated category is one of a store
\* with an approved document.
PublishesWithProof ==
    \A l \in Existing' :
        /\ OnOfferGated(listings'[l])
        /\ ~(l \in Existing /\ OnOfferGated(listings[l]))
        => Licensed(listings'[l].store)

============================================================================
