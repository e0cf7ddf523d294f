---------------------------- MODULE PetListings ----------------------------
(***************************************************************************)
(* The pets people list themselves: services/shared/petListing.service.js  *)
(* over repositories/shared/petListing.repository.js, as the customer      *)
(* routes reach it.                                                        *)
(*                                                                         *)
(* A handler loads the row, checks the request against that instance,      *)
(* looks for a namesake, and writes in a transaction of its own; an edit   *)
(* saves relative to the instance (Sequelize!Saved) while the normalised   *)
(* choice rows are replaced wholesale.                                     *)
(***************************************************************************)
EXTENDS Naturals, Sequences, FiniteSets, Sequelize

CONSTANTS
    Owners,         \* customer accounts that list pets
    Names,          \* pet names, equal when the database says so
    Slugs,          \* public links
    SlugsFor,       \* the links uniqueSlug tries for a name, in its order
    Prices,         \* amounts in rupees
    NoPrice,        \* NULL, and the answer left out
    Colors,         \* what the colour question is answered with
    Forms,          \* the answer maps that are submitted
    AskedStatuses,  \* the statuses a request may ask for
    Requests,       \* the requests that may be in flight at one time
    MaxListings,    \* bound: the listings that are published
    MaxViews        \* bound: the views one listing collects

PetListingType   == {"SALE", "ADOPTION"}
PetListingStatus == {"AVAILABLE", "RESERVED", "SOLD", "UNAVAILABLE", "ARCHIVED"}

\* PartnerSettablePetListingStatuses: RESERVED is nobody's to ask for.
SettableStatuses == PetListingStatus \ {"RESERVED"}

\* PubliclyVisiblePetStatuses
PubliclyVisible == PetListingStatus \ {"ARCHIVED"}

Form == [name : Names, price : Prices \cup {NoPrice}, colors : Colors]

ASSUME PetListingsAssumption ==
    /\ NoPrice \notin Prices
    /\ SlugsFor \in [Names -> Seq(Slugs)]
    /\ Forms \subseteq Form
    /\ AskedStatuses \subseteq SettableStatuses
    /\ MaxListings \in Nat
    /\ MaxViews \in Nat

VARIABLES
    listings,   \* pet_listings with their choice rows, in order of creation
    reqs        \* what each request in flight holds

vars == <<listings, reqs>>

----------------------------------------------------------------------------
(* Rows and requests *)

\* colors is the JSON column, colorRows the rows of pet_listing_colors.
Listing == [owner : Owners, name : Names, slug : Slugs, type : PetListingType,
            price : Prices \cup {NoPrice}, colors : Colors, colorRows : Colors,
            status : PetListingStatus, views : Nat]

\* What columnsFromAnswers makes of a form under a listing type.
Columns == [name : Names, type : PetListingType, price : Prices \cup {NoPrice},
            colors : Colors]

Idle == [stage |-> "idle"]

\* seen is what the request uses of the instance it loaded.
Request == {Idle}
    \cup [stage : {"named"}, owner : Owners, columns : Columns]
    \cup [stage : {"linked"}, owner : Owners, columns : Columns, slug : Slugs]
    \cup [stage : {"editing", "edited"}, id : Nat \ {0}, seen : Columns, columns : Columns]
    \cup [stage : {"moving"}, id : Nat \ {0}, seen : PetListingStatus, status : PetListingStatus]
    \cup [stage : {"viewing"}, id : Nat \ {0}]

ColumnsOf(row) == [name |-> row.name, type |-> row.type, price |-> row.price,
                   colors |-> row.colors]

----------------------------------------------------------------------------
(* The rules a request is held against *)

\* Mutant: the price is not asked for.
NoPriceRule(type, form) == TRUE

\* columnsFromAnswers refuses a sale without a price; a rehomed pet has none.
PriceRule(type, form) == type = "SALE" => form.price # NoPrice

PriceUnder(type, form) == IF type = "ADOPTION" THEN NoPrice ELSE form.price

ColumnsFromAnswers(type, form) ==
    [name |-> form.name, type |-> type, price |-> PriceUnder(type, form),
     colors |-> form.colors]

\* ADOPTION is terminal; the asked type is compared with the loaded one.
TypeMayBecome(seen, type) == ~(seen.type = "ADOPTION" /\ type = "SALE")

\* Mutant: only a listing that is on offer counts as a namesake.
OfferedNamesakes(owner, name, excluded) ==
    {l \in DOMAIN listings \ excluded :
        /\ listings[l].owner = owner
        /\ listings[l].name = name
        /\ listings[l].status = "AVAILABLE"}

\* findLiveByName, the listing in excluded left out.
Namesakes(owner, name, excluded) ==
    {l \in DOMAIN listings \ excluded :
        /\ listings[l].owner = owner
        /\ listings[l].name = name
        /\ listings[l].status # "ARCHIVED"}

Taken(slug) == \E l \in DOMAIN listings : listings[l].slug = slug

\* uniqueSlug: the first link of the name's that no row holds.
UniqueSlug(name, slug) ==
    \E i \in DOMAIN SlugsFor[name] :
        /\ SlugsFor[name][i] = slug
        /\ ~Taken(slug)
        /\ \A j \in 1 .. i - 1 : Taken(SlugsFor[name][j])

----------------------------------------------------------------------------
(* Publishing *)

Init ==
    /\ listings = <<>>
    /\ reqs = [r \in Requests |-> Idle]

Become(r, request) == reqs' = [reqs EXCEPT ![r] = request]

\* create, up to its transaction.
Create(r, owner, type, form) ==
    /\ reqs[r] = Idle
    /\ PriceRule(type, form)
    /\ Namesakes(owner, form.name, {}) = {}
    /\ Become(r, [stage |-> "named", owner |-> owner,
                  columns |-> ColumnsFromAnswers(type, form)])
    /\ UNCHANGED listings

\* uniqueSlug, a read inside the transaction.
PickSlug(r, slug) ==
    /\ reqs[r].stage = "named"
    /\ UniqueSlug(reqs[r].columns.name, slug)
    /\ Become(r, [stage |-> "linked", owner |-> reqs[r].owner,
                  columns |-> reqs[r].columns, slug |-> slug])
    /\ UNCHANGED listings

NewListing(q) ==
    [owner |-> q.owner, name |-> q.columns.name, slug |-> q.slug,
     type |-> q.columns.type, price |-> q.columns.price,
     colors |-> q.columns.colors, colorRows |-> q.columns.colors,
     status |-> "AVAILABLE", views |-> 0]

\* The insert and the commit; the unique index refuses a link that is taken.
CommitCreate(r) ==
    /\ reqs[r].stage = "linked"
    /\ Len(listings) < MaxListings
    /\ ~Taken(reqs[r].slug)
    /\ listings' = Append(listings, NewListing(reqs[r]))
    /\ Become(r, Idle)

----------------------------------------------------------------------------
(* Editing and the status buttons *)

\* updateForOwner up to the namesake query; the request may leave the type out.
UpdateForOwner(r, owner, l, type, form) ==
    /\ reqs[r] = Idle
    /\ listings[l].owner = owner
    /\ LET next == IF type \in PetListingType THEN type ELSE listings[l].type IN
          /\ TypeMayBecome(listings[l], next)
          /\ PriceRule(next, form)
          /\ Become(r, [stage |-> "editing", id |-> l, seen |-> ColumnsOf(listings[l]),
                        columns |-> ColumnsFromAnswers(next, form)])
    /\ UNCHANGED listings

CheckName(r) ==
    /\ reqs[r].stage = "editing"
    /\ Namesakes(listings[reqs[r].id].owner, reqs[r].columns.name, {reqs[r].id}) = {}
    /\ Become(r, [reqs[r] EXCEPT !.stage = "edited"])
    /\ UNCHANGED listings

\* Mutant: the choice rows are left as they are.
EditedColumnsOnly(row, q) ==
    [row EXCEPT !.name   = Saved(q.columns.name, q.seen.name, row.name),
                !.type   = Saved(q.columns.type, q.seen.type, row.type),
                !.price  = Saved(q.columns.price, q.seen.price, row.price),
                !.colors = Saved(q.columns.colors, q.seen.colors, row.colors)]

\* Mutant: the listing type is written even when the edit leaves it alone.
EditedWithType(row, q) ==
    [row EXCEPT !.name      = Saved(q.columns.name, q.seen.name, row.name),
                !.type      = q.columns.type,
                !.price     = Saved(q.columns.price, q.seen.price, row.price),
                !.colors    = Saved(q.columns.colors, q.seen.colors, row.colors),
                !.colorRows = q.columns.colors]

\* update and replaceChoiceRows of the edit, on top of what row holds by then.
Edited(row, q) ==
    [row EXCEPT !.name      = Saved(q.columns.name, q.seen.name, row.name),
                !.type      = Saved(q.columns.type, q.seen.type, row.type),
                !.price     = Saved(q.columns.price, q.seen.price, row.price),
                !.colors    = Saved(q.columns.colors, q.seen.colors, row.colors),
                !.colorRows = q.columns.colors]

CommitEdit(r) ==
    /\ reqs[r].stage = "edited"
    /\ listings' = [listings EXCEPT ![reqs[r].id] = Edited(@, reqs[r])]
    /\ Become(r, Idle)

\* updateStatusForOwner refuses a removed listing, as it was loaded.
UpdateStatusForOwner(r, owner, l, status) ==
    /\ reqs[r] = Idle
    /\ listings[l].owner = owner
    /\ listings[l].status # "ARCHIVED"
    /\ Become(r, [stage |-> "moving", id |-> l, seen |-> listings[l].status,
                  status |-> status])
    /\ UNCHANGED listings

CommitStatus(r) ==
    /\ reqs[r].stage = "moving"
    /\ listings' = [listings EXCEPT ![reqs[r].id].status =
                       Saved(reqs[r].status, reqs[r].seen, @)]
    /\ Become(r, Idle)

----------------------------------------------------------------------------
(* Being looked at *)

\* getPublic by somebody else than the owner; a guest is no account.
GetPublic(r, l) ==
    /\ reqs[r] = Idle
    /\ listings[l].status \in PubliclyVisible
    /\ Become(r, [stage |-> "viewing", id |-> l])
    /\ UNCHANGED listings

\* incrementViewCount runs on its own, on the row as it is by then.
IncrementViewCount(r) ==
    /\ reqs[r].stage = "viewing"
    /\ listings[reqs[r].id].views < MaxViews
    /\ listings' = [listings EXCEPT ![reqs[r].id].views = @ + 1]
    /\ Become(r, Idle)

\* The request is refused, or dies, or its transaction is rolled back.
Fail(r) ==
    /\ reqs[r] # Idle
    /\ Become(r, Idle)
    /\ UNCHANGED listings

Publish(r) ==
    \/ \E owner \in Owners, type \in PetListingType, form \in Forms :
          Create(r, owner, type, form)
    \/ \E slug \in Slugs : PickSlug(r, slug)
    \/ CommitCreate(r)

Change(r) ==
    \/ \E owner \in Owners, l \in DOMAIN listings,
          type \in PetListingType \cup {"unset"}, form \in Forms :
          UpdateForOwner(r, owner, l, type, form)
    \/ CheckName(r)
    \/ CommitEdit(r)
    \/ \E owner \in Owners, l \in DOMAIN listings, status \in AskedStatuses :
          UpdateStatusForOwner(r, owner, l, status)
    \/ CommitStatus(r)

View(r) ==
    \/ \E l \in DOMAIN listings : GetPublic(r, l)
    \/ IncrementViewCount(r)

Handle(r) == Publish(r) \/ Change(r) \/ View(r) \/ Fail(r)

Next == \E r \in Requests : Handle(r)

Spec == Init /\ [][Next]_vars

----------------------------------------------------------------------------
(* Properties *)

\* The rows and the requests have the shape the tables and handlers give them.
TypeOK ==
    /\ listings \in Seq(Listing)
    /\ reqs \in [Requests -> Request]
    /\ \A r \in Requests :
          reqs[r].stage \in {"editing", "edited", "moving", "viewing"} =>
              reqs[r].id \in DOMAIN listings

\* A listing that is for sale carries a price, whatever edits and changes of
\* mind have crossed each other.
SaleIsPriced ==
    \A l \in DOMAIN listings :
        listings[l].type = "SALE" => listings[l].price # NoPrice

\* Two listings never answer to the same public link.
LinksAreUnique ==
    \A l, k \in DOMAIN listings : listings[l].slug = listings[k].slug => l = k

\* A pet offered free is never offered for money again, not even by an edit
\* that was checked while the pet was still for sale.
AdoptionIsTerminal ==
    [][\A l \in DOMAIN listings :
           listings[l].type = "ADOPTION" => listings'[l].type = "ADOPTION"]_vars

\* One live listing per name and owner.
LiveNamesAreUnique ==
    \A l, k \in DOMAIN listings :
        /\ listings[l].owner = listings[k].owner
        /\ listings[l].name = listings[k].name
        /\ "ARCHIVED" \notin {listings[l].status, listings[k].status}
        => l = k

\* The colours a card shows are the colours the normalised rows hold.
ChoicesAreMirrored ==
    \A l \in DOMAIN listings : listings[l].colors = listings[l].colorRows

============================================================================
