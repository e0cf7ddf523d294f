------------------------- MODULE PetListingsProofs -------------------------
(***************************************************************************)
(* What PetListings keeps for any owners, names, links and requests, and   *)
(* however the requests overlap.                                           *)
(***************************************************************************)
EXTENDS PetListingsInTurn, SequenceTheorems, TLAPS

----------------------------------------------------------------------------
(* The invariant *)

\* The columns a request carries obey the price rule.
Priced(q) ==
    q.stage \in {"named", "linked", "editing", "edited"} =>
        (q.columns.type = "SALE" => q.columns.price # NoPrice)

\* An edit that loaded a rehoming keeps it one, and the row still is one.
KeepsAdoption(q, rows) ==
    q.stage \in {"editing", "edited"} /\ q.seen.type = "ADOPTION" =>
        q.columns.type = "ADOPTION" /\ rows[q.id].type = "ADOPTION"

RequestsAreSound == \A r \in Requests : Priced(reqs[r]) /\ KeepsAdoption(reqs[r], listings)

PetsInv == TypeOK /\ RequestsAreSound /\ SaleIsPriced /\ LinksAreUnique

\* What a step may rely on of the rows and of a request.
LEMMA RowFacts ==
    ASSUME TypeOK
    PROVE  /\ Len(listings) \in Nat
           /\ DOMAIN listings = 1 .. Len(listings)
           /\ \A l \in DOMAIN listings : l \in Nat \ {0} /\ listings[l] \in Listing
BY DEF TypeOK

LEMMA RequestFacts ==
    ASSUME TypeOK, NEW r \in Requests
    PROVE  /\ reqs[r].stage \in {"named", "linked"} =>
                  reqs[r].owner \in Owners /\ reqs[r].columns \in Columns
           /\ reqs[r].stage = "linked" => reqs[r].slug \in Slugs
           /\ reqs[r].stage \in {"editing", "edited"} =>
                  /\ reqs[r].seen \in Columns /\ reqs[r].columns \in Columns
                  /\ reqs[r] \in [stage : {"editing", "edited"}, id : Nat \ {0},
                                  seen : Columns, columns : Columns]
           /\ reqs[r].stage = "moving" =>
                  reqs[r].seen \in PetListingStatus /\ reqs[r].status \in PetListingStatus
           /\ reqs[r].stage \in {"editing", "edited", "moving", "viewing"} =>
                  reqs[r].id \in DOMAIN listings
BY DEF TypeOK, Request, Idle

LEMMA ColumnFacts ==
    ASSUME NEW c \in Columns
    PROVE  /\ c.name \in Names /\ c.type \in PetListingType
           /\ c.price \in Prices \cup {NoPrice} /\ c.colors \in Colors
BY DEF Columns

LEMMA ListingFacts ==
    ASSUME NEW row \in Listing
    PROVE  /\ row.owner \in Owners /\ row.name \in Names /\ row.slug \in Slugs
           /\ row.type \in PetListingType /\ row.price \in Prices \cup {NoPrice}
           /\ row.colors \in Colors /\ row.colorRows \in Colors
           /\ row.status \in PetListingStatus /\ row.views \in Nat
           /\ ColumnsOf(row) \in Columns
BY DEF Listing, ColumnsOf, Columns

\* columnsFromAnswers makes columns of a form, and obeys the price rule.
LEMMA FormFacts ==
    ASSUME NEW type \in PetListingType, NEW form \in Forms
    PROVE  /\ ColumnsFromAnswers(type, form) \in Columns
           /\ ColumnsFromAnswers(type, form).type = type
           /\ PriceRule(type, form) /\ type = "SALE" =>
                  ColumnsFromAnswers(type, form).price # NoPrice
BY PetListingsAssumption
   DEF ColumnsFromAnswers, Columns, Form, PriceUnder, PriceRule, PetListingType

----------------------------------------------------------------------------
(* What a step does to the rows *)

\* Replacing row l keeps the type of the table.
LEMMA RowUpdate ==
    ASSUME TypeOK, NEW l \in DOMAIN listings, NEW row \in Listing,
           listings' = [listings EXCEPT ![l] = row]
    PROVE  /\ listings' \in Seq(Listing)
           /\ DOMAIN listings' = DOMAIN listings
           /\ listings'[l] = row
           /\ \A k \in DOMAIN listings : k # l => listings'[k] = listings[k]
BY ExceptSeq, RowFacts DEF TypeOK

\* What every step leaves as it was: links, and what is rehomed.
RowsKept ==
    /\ listings' \in Seq(Listing)
    /\ DOMAIN listings \subseteq DOMAIN listings'
    /\ \A l \in DOMAIN listings :
          /\ listings'[l].slug = listings[l].slug
          /\ listings[l].type = "ADOPTION" => listings'[l].type = "ADOPTION"

\* An edit writes the columns that differ from what it loaded.
LEMMA EditedRow ==
    ASSUME TypeOK, RequestsAreSound, SaleIsPriced, NEW r \in Requests, CommitEdit(r)
    PROVE  RowsKept /\ SaleIsPriced' /\ DOMAIN listings' = DOMAIN listings
<1> DEFINE q == reqs[r]
           l == q.id
           row == Edited(listings[l], q)
<1>1. /\ l \in DOMAIN listings /\ listings[l] \in Listing
      /\ q.seen \in Columns /\ q.columns \in Columns
      /\ q.stage = "edited" /\ listings' = [listings EXCEPT ![l] = row]
  BY RowFacts, RequestFacts DEF CommitEdit
<1>2. row \in Listing /\ row.slug = listings[l].slug
  BY <1>1, ColumnFacts, ListingFacts DEF Edited, Saved, Listing
<1>3. /\ row.type = Saved(q.columns.type, q.seen.type, listings[l].type)
      /\ row.price = Saved(q.columns.price, q.seen.price, listings[l].price)
  BY <1>1 DEF Edited, Listing
<1>4. Priced(q) /\ KeepsAdoption(q, listings)
  BY DEF RequestsAreSound
<1>5. listings[l].type = "ADOPTION" => row.type = "ADOPTION"
  BY <1>1, <1>3, <1>4, ColumnFacts DEF Saved, KeepsAdoption, PetListingType
<1>6. row.type = "SALE" => row.price # NoPrice
  <2> SUFFICES ASSUME row.type = "SALE" PROVE row.price # NoPrice
    OBVIOUS
  <2>1. listings[l].type = "SALE"
    BY <1>1, <1>5, ListingFacts DEF PetListingType
  <2>2. q.columns.type = "SALE"
    BY <1>1, <1>3, <1>4, <2>1, ColumnFacts DEF Saved, KeepsAdoption, PetListingType
  <2> QED
    BY <1>1, <1>3, <1>4, <2>1, <2>2 DEF Saved, Priced, SaleIsPriced
<1> HIDE DEF row, l, q
<1>7. /\ listings' \in Seq(Listing) /\ DOMAIN listings' = DOMAIN listings
      /\ listings'[l] = row
      /\ \A k \in DOMAIN listings : k # l => listings'[k] = listings[k]
  BY <1>1, <1>2, RowUpdate
<1> QED
  BY <1>2, <1>5, <1>6, <1>7 DEF RowsKept, SaleIsPriced

\* A status button writes the status.
LEMMA MovedRow ==
    ASSUME TypeOK, SaleIsPriced, NEW r \in Requests, CommitStatus(r)
    PROVE  RowsKept /\ SaleIsPriced' /\ DOMAIN listings' = DOMAIN listings
<1> DEFINE l == reqs[r].id
           status == Saved(reqs[r].status, reqs[r].seen, listings[l].status)
           row == [listings[l] EXCEPT !.status = status]
<1>1. /\ l \in DOMAIN listings /\ listings[l] \in Listing
      /\ status \in PetListingStatus
      /\ listings' = [listings EXCEPT ![l] = row]
  BY RowFacts, RequestFacts, ListingFacts DEF CommitStatus, Saved
<1> HIDE DEF l, status
<1>2. /\ row \in Listing /\ row.slug = listings[l].slug
      /\ row.type = listings[l].type /\ row.price = listings[l].price
  BY <1>1 DEF Listing
<1> HIDE DEF row
<1>3. /\ listings' \in Seq(Listing) /\ DOMAIN listings' = DOMAIN listings
      /\ listings'[l] = row
      /\ \A k \in DOMAIN listings : k # l => listings'[k] = listings[k]
  BY <1>1, <1>2, RowUpdate
<1> QED
  BY <1>1, <1>2, <1>3 DEF RowsKept, SaleIsPriced

\* A view is counted.
LEMMA ViewedRow ==
    ASSUME TypeOK, SaleIsPriced, NEW r \in Requests, IncrementViewCount(r)
    PROVE  RowsKept /\ SaleIsPriced' /\ DOMAIN listings' = DOMAIN listings
<1> DEFINE l == reqs[r].id
           row == [listings[l] EXCEPT !.views = listings[l].views + 1]
<1>1. /\ l \in DOMAIN listings /\ listings[l] \in Listing
      /\ listings' = [listings EXCEPT ![l] = row]
  BY RowFacts, RequestFacts DEF IncrementViewCount
<1> HIDE DEF l
<1>2. /\ row \in Listing /\ row.slug = listings[l].slug
      /\ row.type = listings[l].type /\ row.price = listings[l].price
  BY <1>1 DEF Listing
<1> HIDE DEF row
<1>3. /\ listings' \in Seq(Listing) /\ DOMAIN listings' = DOMAIN listings
      /\ listings'[l] = row
      /\ \A k \in DOMAIN listings : k # l => listings'[k] = listings[k]
  BY <1>1, <1>2, RowUpdate
<1> QED
  BY <1>1, <1>2, <1>3 DEF RowsKept, SaleIsPriced

\* A publication appends a row under a link nobody holds.
LEMMA NewRow ==
    ASSUME PetsInv, NEW r \in Requests, CommitCreate(r)
    PROVE  RowsKept /\ SaleIsPriced' /\ LinksAreUnique'
<1> DEFINE row == NewListing(reqs[r])
           n == Len(listings) + 1
<1>1. TypeOK /\ Priced(reqs[r]) /\ reqs[r].stage = "linked"
      /\ listings' = Append(listings, row)
  BY DEF PetsInv, RequestsAreSound, CommitCreate
<1>2. /\ row \in Listing /\ row.slug = reqs[r].slug
      /\ row.type = "SALE" => row.price # NoPrice
  BY <1>1, RequestFacts, ColumnFacts
     DEF NewListing, Listing, Priced, PetListingStatus
<1>3. \A l \in DOMAIN listings : listings[l].slug # row.slug
  BY <1>2 DEF CommitCreate, Taken
<1> HIDE DEF row
<1>4. /\ listings' \in Seq(Listing) /\ DOMAIN listings' = 1 .. n /\ n \in Nat
      /\ DOMAIN listings = 1 .. n - 1
      /\ listings'[n] = row
      /\ \A l \in DOMAIN listings : listings'[l] = listings[l]
  BY <1>1, <1>2, RowFacts, AppendProperties, LenProperties DEF TypeOK
<1> HIDE DEF n
<1>5. \A l \in DOMAIN listings' : l = n \/ l \in DOMAIN listings
  BY <1>4
<1>6. SaleIsPriced'
  BY <1>2, <1>4, <1>5 DEF PetsInv, SaleIsPriced
<1>7. LinksAreUnique'
  BY <1>3, <1>4, <1>5 DEF PetsInv, LinksAreUnique
<1> QED
  BY <1>4, <1>6, <1>7 DEF RowsKept

----------------------------------------------------------------------------
(* What a step does to the requests *)

\* A request that becomes a sound one leaves all requests sound.
LEMMA Becomes ==
    ASSUME TypeOK, RequestsAreSound, RowsKept, NEW r \in Requests, NEW e \in Request,
           Become(r, e), Priced(e), KeepsAdoption(e, listings'),
           e.stage \in {"editing", "edited", "moving", "viewing"} => e.id \in DOMAIN listings
    PROVE  TypeOK' /\ RequestsAreSound'
<1>1. /\ reqs' \in [Requests -> Request] /\ reqs'[r] = e
      /\ \A q \in Requests \ {r} : reqs'[q] = reqs[q]
  BY DEF Become, TypeOK
<1>2. \A q \in Requests \ {r} : Priced(reqs[q]) /\ KeepsAdoption(reqs[q], listings')
  BY <1>1, RequestFacts DEF RequestsAreSound, KeepsAdoption, RowsKept
<1>3. RequestsAreSound'
  BY <1>1, <1>2 DEF RequestsAreSound, Priced, KeepsAdoption
<1>4. \A q \in Requests : reqs'[q].stage \in {"editing", "edited", "moving", "viewing"} =>
          reqs'[q].id \in DOMAIN listings'
  BY <1>1, RequestFacts DEF RowsKept
<1> QED
  BY <1>1, <1>3, <1>4 DEF TypeOK, RowsKept

LEMMA BecomesIdle ==
    ASSUME TypeOK, RequestsAreSound, RowsKept, NEW r \in Requests, Become(r, Idle)
    PROVE  TypeOK' /\ RequestsAreSound'
<1>1. Idle \in Request /\ Priced(Idle) /\ KeepsAdoption(Idle, listings')
      /\ Idle.stage = "idle"
  BY DEF Idle, Request, Priced, KeepsAdoption
<1> QED
  BY <1>1, Becomes

LEMMA NothingWritten ==
    ASSUME TypeOK, UNCHANGED listings
    PROVE  RowsKept
BY DEF RowsKept, TypeOK

\* A step of a request that only reads keeps the invariant's account of the
\* requests.
LEMMA ReadingStep ==
    ASSUME TypeOK, RequestsAreSound, NEW r \in Requests, UNCHANGED listings,
           \/ \E owner \in Owners, type \in PetListingType, form \in Forms :
                 Create(r, owner, type, form)
           \/ \E slug \in Slugs : PickSlug(r, slug)
           \/ \E owner \in Owners, l \in DOMAIN listings,
                 type \in PetListingType \cup {"unset"}, form \in Forms :
                 UpdateForOwner(r, owner, l, type, form)
           \/ CheckName(r)
           \/ \E owner \in Owners, l \in DOMAIN listings, status \in AskedStatuses :
                 UpdateStatusForOwner(r, owner, l, status)
           \/ \E l \in DOMAIN listings : GetPublic(r, l)
    PROVE  TypeOK' /\ RequestsAreSound'
<1>0. RowsKept
  BY NothingWritten
<1>1. ASSUME NEW owner \in Owners, NEW type \in PetListingType, NEW form \in Forms,
             Create(r, owner, type, form)
      PROVE  TypeOK' /\ RequestsAreSound'
  <2> DEFINE c == ColumnsFromAnswers(type, form)
             e == [stage |-> "named", owner |-> owner, columns |-> c]
  <2>1. Become(r, e) /\ c \in Columns /\ (c.type = "SALE" => c.price # NoPrice)
    BY <1>1, FormFacts DEF Create
  <2> HIDE DEF c
  <2>2. e \in Request /\ Priced(e) /\ KeepsAdoption(e, listings') /\ e.stage = "named"
    BY <2>1 DEF Request, Priced, KeepsAdoption
  <2> HIDE DEF e
  <2> QED
    BY <1>0, <2>1, <2>2, Becomes
<1>2. ASSUME NEW slug \in Slugs, PickSlug(r, slug) PROVE TypeOK' /\ RequestsAreSound'
  <2> DEFINE e == [stage |-> "linked", owner |-> reqs[r].owner,
                   columns |-> reqs[r].columns, slug |-> slug]
  <2>1. /\ Become(r, e) /\ Priced(reqs[r]) /\ reqs[r].stage = "named"
        /\ reqs[r].owner \in Owners /\ reqs[r].columns \in Columns
    BY <1>2, RequestFacts DEF PickSlug, RequestsAreSound
  <2>2. e \in Request /\ Priced(e) /\ KeepsAdoption(e, listings') /\ e.stage = "linked"
    BY <2>1 DEF Request, Priced, KeepsAdoption
  <2> HIDE DEF e
  <2> QED
    BY <1>0, <2>1, <2>2, Becomes
<1>3. ASSUME NEW owner \in Owners, NEW l \in DOMAIN listings,
             NEW type \in PetListingType \cup {"unset"}, NEW form \in Forms,
             UpdateForOwner(r, owner, l, type, form)
      PROVE  TypeOK' /\ RequestsAreSound'
  <2> DEFINE next == IF type \in PetListingType THEN type ELSE listings[l].type
             c == ColumnsFromAnswers(next, form)
             seen == ColumnsOf(listings[l])
             e == [stage |-> "editing", id |-> l, seen |-> seen, columns |-> c]
  <2>1. l \in Nat \ {0} /\ listings[l] \in Listing /\ next \in PetListingType
    BY RowFacts, ListingFacts
  <2>2. Become(r, e) /\ TypeMayBecome(listings[l], next) /\ PriceRule(next, form)
    BY <1>3 DEF UpdateForOwner
  <2>3. /\ c \in Columns /\ c.type = next /\ (c.type = "SALE" => c.price # NoPrice)
        /\ seen \in Columns /\ seen.type = listings[l].type
    BY <2>1, <2>2, FormFacts, ListingFacts DEF ColumnsOf
  <2>4. seen.type = "ADOPTION" => c.type = "ADOPTION"
    BY <2>1, <2>2, <2>3 DEF TypeMayBecome, PetListingType
  <2> HIDE DEF next, c, seen
  <2>5. /\ e \in Request /\ Priced(e) /\ KeepsAdoption(e, listings')
        /\ e.id = l
    BY <2>1, <2>3, <2>4 DEF Request, Priced, KeepsAdoption
  <2> HIDE DEF e
  <2> QED
    BY <1>0, <2>2, <2>5, Becomes
<1>4. ASSUME CheckName(r) PROVE TypeOK' /\ RequestsAreSound'
  <2> DEFINE e == [reqs[r] EXCEPT !.stage = "edited"]
  <2>1. /\ Become(r, e) /\ Priced(reqs[r]) /\ KeepsAdoption(reqs[r], listings)
        /\ reqs[r].stage = "editing" /\ reqs[r].id \in DOMAIN listings
        /\ reqs[r] \in [stage : {"editing", "edited"}, id : Nat \ {0},
                        seen : Columns, columns : Columns]
    BY <1>4, RequestFacts DEF CheckName, RequestsAreSound
  <2>2. /\ e \in Request /\ e.id = reqs[r].id
        /\ e.seen = reqs[r].seen /\ e.columns = reqs[r].columns
    BY <2>1 DEF Request
  <2>3. Priced(e) /\ KeepsAdoption(e, listings')
    BY <2>1, <2>2 DEF Priced, KeepsAdoption
  <2> HIDE DEF e
  <2> QED
    BY <1>0, <2>1, <2>2, <2>3, Becomes
<1>5. ASSUME NEW owner \in Owners, NEW l \in DOMAIN listings, NEW status \in AskedStatuses,
             UpdateStatusForOwner(r, owner, l, status)
      PROVE  TypeOK' /\ RequestsAreSound'
  <2> DEFINE e == [stage |-> "moving", id |-> l, seen |-> listings[l].status,
                   status |-> status]
  <2>1. /\ Become(r, e) /\ l \in Nat \ {0} /\ listings[l].status \in PetListingStatus
        /\ status \in PetListingStatus
    BY <1>5, RowFacts, ListingFacts, PetListingsAssumption
       DEF UpdateStatusForOwner, SettableStatuses
  <2>2. e \in Request /\ Priced(e) /\ KeepsAdoption(e, listings') /\ e.id = l
    BY <2>1 DEF Request, Priced, KeepsAdoption
  <2> HIDE DEF e
  <2> QED
    BY <1>0, <2>1, <2>2, Becomes
<1>6. ASSUME NEW l \in DOMAIN listings, GetPublic(r, l) PROVE TypeOK' /\ RequestsAreSound'
  <2> DEFINE e == [stage |-> "viewing", id |-> l]
  <2>1. Become(r, e) /\ l \in Nat \ {0}
    BY <1>6, RowFacts DEF GetPublic
  <2>2. e \in Request /\ Priced(e) /\ KeepsAdoption(e, listings') /\ e.id = l
    BY <2>1 DEF Request, Priced, KeepsAdoption
  <2> HIDE DEF e
  <2> QED
    BY <1>0, <2>1, <2>2, Becomes
<1> QED
  BY <1>1, <1>2, <1>3, <1>4, <1>5, <1>6

----------------------------------------------------------------------------
(* The invariant is kept *)

LEMMA PetsStart == Init => PetsInv
<1> SUFFICES ASSUME Init PROVE PetsInv
  OBVIOUS
<1>1. listings \in Seq(Listing) /\ DOMAIN listings = {}
  BY DEF Init
<1>2. reqs \in [Requests -> Request] /\ \A r \in Requests : reqs[r].stage = "idle"
  BY DEF Init, Request, Idle
<1> QED
  BY <1>1, <1>2
     DEF PetsInv, TypeOK, RequestsAreSound, Priced, KeepsAdoption, SaleIsPriced, LinksAreUnique

\* No step makes two listings share a link unless it publishes one.
LEMMA LinksKept ==
    ASSUME LinksAreUnique, RowsKept, DOMAIN listings' = DOMAIN listings
    PROVE  LinksAreUnique'
BY DEF LinksAreUnique, RowsKept

\* What one step of one request keeps, one kind of step at a time.
LEMMA HandleStep ==
    ASSUME PetsInv, NEW r \in Requests, Handle(r)
    PROVE  PetsInv' /\ RowsKept
<1>0. TypeOK /\ RequestsAreSound /\ SaleIsPriced /\ LinksAreUnique
  BY DEF PetsInv
<1>1. CASE CommitCreate(r)
  <2>1. RowsKept /\ SaleIsPriced' /\ LinksAreUnique'
    BY <1>1, NewRow
  <2>2. Become(r, Idle)
    BY <1>1 DEF CommitCreate
  <2> QED
    BY <1>0, <2>1, <2>2, BecomesIdle DEF PetsInv
<1>2. CASE CommitEdit(r)
  <2>1. RowsKept /\ SaleIsPriced' /\ DOMAIN listings' = DOMAIN listings
    BY <1>0, <1>2, EditedRow
  <2>2. Become(r, Idle)
    BY <1>2 DEF CommitEdit
  <2> QED
    BY <1>0, <2>1, <2>2, BecomesIdle, LinksKept DEF PetsInv
<1>3. CASE CommitStatus(r)
  <2>1. RowsKept /\ SaleIsPriced' /\ DOMAIN listings' = DOMAIN listings
    BY <1>0, <1>3, MovedRow
  <2>2. Become(r, Idle)
    BY <1>3 DEF CommitStatus
  <2> QED
    BY <1>0, <2>1, <2>2, BecomesIdle, LinksKept DEF PetsInv
<1>4. CASE IncrementViewCount(r)
  <2>1. RowsKept /\ SaleIsPriced' /\ DOMAIN listings' = DOMAIN listings
    BY <1>0, <1>4, ViewedRow
  <2>2. Become(r, Idle)
    BY <1>4 DEF IncrementViewCount
  <2> QED
    BY <1>0, <2>1, <2>2, BecomesIdle, LinksKept DEF PetsInv
<1>5. CASE Fail(r)
  <2>1. RowsKept /\ SaleIsPriced' /\ LinksAreUnique' /\ Become(r, Idle)
    BY <1>0, <1>5, NothingWritten DEF Fail, SaleIsPriced, LinksAreUnique
  <2> QED
    BY <1>0, <2>1, BecomesIdle DEF PetsInv
<1>6. ASSUME \/ \E owner \in Owners, type \in PetListingType, form \in Forms :
                   Create(r, owner, type, form)
             \/ \E slug \in Slugs : PickSlug(r, slug)
             \/ \E owner \in Owners, l \in DOMAIN listings,
                   type \in PetListingType \cup {"unset"}, form \in Forms :
                   UpdateForOwner(r, owner, l, type, form)
             \/ CheckName(r)
             \/ \E owner \in Owners, l \in DOMAIN listings, status \in AskedStatuses :
                   UpdateStatusForOwner(r, owner, l, status)
             \/ \E l \in DOMAIN listings : GetPublic(r, l)
      PROVE  PetsInv' /\ RowsKept
  <2>1. UNCHANGED listings
    BY <1>6 DEF Create, PickSlug, UpdateForOwner, CheckName, UpdateStatusForOwner, GetPublic
  <2>2. TypeOK' /\ RequestsAreSound'
    BY <1>0, <1>6, <2>1, ReadingStep
  <2> QED
    BY <1>0, <2>1, <2>2, NothingWritten DEF PetsInv, SaleIsPriced, LinksAreUnique
<1> QED
  BY <1>1, <1>2, <1>3, <1>4, <1>5, <1>6 DEF Handle, Publish, Change, View

LEMMA PetsStep == PetsInv /\ [Next]_vars => PetsInv'
<1> SUFFICES ASSUME PetsInv, [Next]_vars PROVE PetsInv'
  OBVIOUS
<1>1. CASE Next
  BY <1>1, HandleStep DEF Next
<1>2. CASE UNCHANGED vars
  BY <1>2 DEF vars, PetsInv, TypeOK, RequestsAreSound, Priced, KeepsAdoption,
              SaleIsPriced, LinksAreUnique
<1> QED
  BY <1>1, <1>2

----------------------------------------------------------------------------
(* Theorems *)

\* The invariant above holds of every behaviour of the pet listing service.
THEOREM PetsCorrect == Spec => []PetsInv
<1> QED
  BY PetsStart, PetsStep, PTL DEF Spec

\* Rows and requests keep the shape the tables and handlers give them.
THEOREM TypeCorrect == Spec => []TypeOK
<1>1. PetsInv => TypeOK
  BY DEF PetsInv
<1> QED
  BY <1>1, PetsCorrect, PTL

\* A listing for sale has a price, whatever edits cross each other.
THEOREM SaleIsAlwaysPriced == Spec => []SaleIsPriced
<1>1. PetsInv => SaleIsPriced
  BY DEF PetsInv
<1> QED
  BY <1>1, PetsCorrect, PTL

\* No two listings answer to one public link, whatever publications cross.
THEOREM LinksAreAlwaysUnique == Spec => []LinksAreUnique
<1>1. PetsInv => LinksAreUnique
  BY DEF PetsInv
<1> QED
  BY <1>1, PetsCorrect, PTL

\* A pet offered free is never offered for money again, whatever edits cross:
\* the check on the loaded row and the save by difference make up for each
\* other.
THEOREM AdoptionIsForever == Spec => AdoptionIsTerminal
<1>1. PetsInv /\ [Next]_vars =>
          [\A l \in DOMAIN listings :
               listings[l].type = "ADOPTION" => listings'[l].type = "ADOPTION"]_vars
  BY HandleStep DEF Next, RowsKept
<1> QED
  BY <1>1, PetsCorrect, PTL DEF Spec, AdoptionIsTerminal

----------------------------------------------------------------------------
(* In turn *)

\* What a request has read still holds: the name is free, the instance is the
\* row.
StillHolds(q, rows) ==
    /\ q.stage \in {"named", "linked"} =>
          \A l \in DOMAIN rows :
              ~(rows[l].owner = q.owner /\ rows[l].name = q.columns.name /\ rows[l].status # "ARCHIVED")
    /\ q.stage \in {"editing", "edited"} => q.seen = ColumnsOf(rows[q.id])
    /\ q.stage = "edited" =>
          \A l \in DOMAIN rows \ {q.id} :
              ~(rows[l].owner = rows[q.id].owner /\ rows[l].name = q.columns.name
                    /\ rows[l].status # "ARCHIVED")
    /\ q.stage = "moving" => q.seen = rows[q.id].status /\ q.seen # "ARCHIVED"

InTurn ==
    /\ \A r \in Requests : StillHolds(reqs[r], listings)
    /\ LiveNamesAreUnique
    /\ ChoicesAreMirrored

LEMMA IdleHolds == \A rows : StillHolds(Idle, rows)
BY DEF StillHolds, Idle

\* The step of a request that runs alone keeps InTurn if what it read holds.
LEMMA AloneStep ==
    ASSUME PetsInv, NEW r \in Requests, Alone(r), NEW e, Become(r, e),
           StillHolds(e, listings'), LiveNamesAreUnique', ChoicesAreMirrored'
    PROVE  InTurn'
<1>1. \A q \in Requests : reqs'[q] = e \/ reqs'[q] = Idle
  BY DEF PetsInv, TypeOK, Become, Alone
<1> QED
  BY <1>1, IdleHolds DEF InTurn

\* A listing nobody's name is taken by joins the others.
LEMMA PublishedInTurn ==
    ASSUME PetsInv, InTurn, NEW r \in Requests, Alone(r), CommitCreate(r)
    PROVE  InTurn'
<1> DEFINE row == NewListing(reqs[r])
           n == Len(listings) + 1
<1>1. /\ TypeOK /\ reqs[r].stage = "linked" /\ Become(r, Idle)
      /\ listings' = Append(listings, row)
  BY DEF PetsInv, CommitCreate
<1>2. /\ row \in Listing /\ row.owner = reqs[r].owner /\ row.name = reqs[r].columns.name
      /\ row.colors = row.colorRows
  BY <1>1, RequestFacts, ColumnFacts DEF NewListing, Listing, PetListingStatus
<1>3. \A l \in DOMAIN listings :
          ~(listings[l].owner = row.owner /\ listings[l].name = row.name
                /\ listings[l].status # "ARCHIVED")
  BY <1>1, <1>2 DEF InTurn, StillHolds
<1> HIDE DEF row
<1>4. /\ DOMAIN listings' = 1 .. n /\ n \in Nat /\ DOMAIN listings = 1 .. n - 1
      /\ listings'[n] = row
      /\ \A l \in DOMAIN listings : listings'[l] = listings[l]
  BY <1>1, <1>2, RowFacts, AppendProperties, LenProperties DEF TypeOK
<1> HIDE DEF n
<1>5. \A l \in DOMAIN listings' : l = n \/ l \in DOMAIN listings
  BY <1>4
<1>6. LiveNamesAreUnique'
  BY <1>3, <1>4, <1>5 DEF InTurn, LiveNamesAreUnique
<1>7. ChoicesAreMirrored'
  BY <1>2, <1>4, <1>5 DEF InTurn, ChoicesAreMirrored
<1> QED
  BY <1>1, <1>6, <1>7, AloneStep, IdleHolds

\* The edit writes all its columns: those it leaves out are what the row holds.
LEMMA EditedInTurn ==
    ASSUME PetsInv, InTurn, NEW r \in Requests, Alone(r), CommitEdit(r)
    PROVE  InTurn'
<1> DEFINE q == reqs[r]
           l == q.id
           row == Edited(listings[l], q)
<1>1. /\ TypeOK /\ l \in DOMAIN listings /\ listings[l] \in Listing
      /\ q.seen \in Columns /\ q.columns \in Columns
      /\ q.stage = "edited" /\ listings' = [listings EXCEPT ![l] = row] /\ Become(r, Idle)
  BY RowFacts, RequestFacts DEF PetsInv, CommitEdit
<1>2. /\ q.seen = ColumnsOf(listings[l])
      /\ \A k \in DOMAIN listings \ {l} :
            ~(listings[k].owner = listings[l].owner /\ listings[k].name = q.columns.name
                  /\ listings[k].status # "ARCHIVED")
  BY <1>1 DEF InTurn, StillHolds
<1>3. row \in Listing
  BY <1>1, ColumnFacts, ListingFacts DEF Edited, Saved, Listing
<1>4. /\ row.owner = listings[l].owner /\ row.status = listings[l].status
      /\ row.name = q.columns.name
      /\ row.colors = q.columns.colors /\ row.colorRows = q.columns.colors
  BY <1>1, <1>2 DEF Edited, Saved, Listing, ColumnsOf
<1> HIDE DEF row, l, q
<1>5. /\ DOMAIN listings' = DOMAIN listings /\ listings'[l] = row
      /\ \A k \in DOMAIN listings : k # l => listings'[k] = listings[k]
  BY <1>1, <1>3, RowUpdate
<1>6. LiveNamesAreUnique'
  BY <1>2, <1>4, <1>5 DEF InTurn, LiveNamesAreUnique
<1>7. ChoicesAreMirrored'
  BY <1>4, <1>5 DEF InTurn, ChoicesAreMirrored
<1> QED
  BY <1>1, <1>6, <1>7, AloneStep, IdleHolds

\* Nothing removed comes back, so the status brings no name into play.
LEMMA MovedInTurn ==
    ASSUME PetsInv, InTurn, NEW r \in Requests, Alone(r), CommitStatus(r)
    PROVE  InTurn'
<1> DEFINE l == reqs[r].id
           status == Saved(reqs[r].status, reqs[r].seen, listings[l].status)
           row == [listings[l] EXCEPT !.status = status]
<1>1. /\ TypeOK /\ l \in DOMAIN listings /\ listings[l] \in Listing
      /\ status \in PetListingStatus /\ Become(r, Idle) /\ reqs[r].stage = "moving"
      /\ listings' = [listings EXCEPT ![l] = row]
  BY RowFacts, RequestFacts, ListingFacts DEF PetsInv, CommitStatus, Saved
<1>2. listings[l].status # "ARCHIVED"
  BY <1>1 DEF InTurn, StillHolds
<1> HIDE DEF l, status
<1>3. /\ row \in Listing /\ row.owner = listings[l].owner /\ row.name = listings[l].name
      /\ row.colors = listings[l].colors /\ row.colorRows = listings[l].colorRows
  BY <1>1 DEF Listing
<1> HIDE DEF row
<1>4. /\ DOMAIN listings' = DOMAIN listings /\ listings'[l] = row
      /\ \A k \in DOMAIN listings : k # l => listings'[k] = listings[k]
  BY <1>1, <1>3, RowUpdate
<1>5. LiveNamesAreUnique'
  BY <1>1, <1>2, <1>3, <1>4 DEF InTurn, LiveNamesAreUnique
<1>6. ChoicesAreMirrored'
  BY <1>1, <1>3, <1>4 DEF InTurn, ChoicesAreMirrored
<1> QED
  BY <1>1, <1>5, <1>6, AloneStep, IdleHolds

LEMMA ViewedInTurn ==
    ASSUME PetsInv, InTurn, NEW r \in Requests, Alone(r), IncrementViewCount(r)
    PROVE  InTurn'
<1> DEFINE l == reqs[r].id
           row == [listings[l] EXCEPT !.views = listings[l].views + 1]
<1>1. /\ TypeOK /\ l \in DOMAIN listings /\ listings[l] \in Listing /\ Become(r, Idle)
      /\ listings' = [listings EXCEPT ![l] = row]
  BY RowFacts, RequestFacts DEF PetsInv, IncrementViewCount
<1> HIDE DEF l
<1>2. /\ row \in Listing /\ row.owner = listings[l].owner /\ row.name = listings[l].name
      /\ row.status = listings[l].status
      /\ row.colors = listings[l].colors /\ row.colorRows = listings[l].colorRows
  BY <1>1 DEF Listing
<1> HIDE DEF row
<1>3. /\ DOMAIN listings' = DOMAIN listings /\ listings'[l] = row
      /\ \A k \in DOMAIN listings : k # l => listings'[k] = listings[k]
  BY <1>1, <1>2, RowUpdate
<1>4. LiveNamesAreUnique'
  BY <1>1, <1>2, <1>3 DEF InTurn, LiveNamesAreUnique
<1>5. ChoicesAreMirrored'
  BY <1>1, <1>2, <1>3 DEF InTurn, ChoicesAreMirrored
<1> QED
  BY <1>1, <1>4, <1>5, AloneStep, IdleHolds

\* The steps that only read: what each of them found is so.
LEMMA ReadInTurn ==
    ASSUME PetsInv, InTurn, NEW r \in Requests, Alone(r), UNCHANGED listings,
           \/ \E owner \in Owners, type \in PetListingType, form \in Forms :
                 Create(r, owner, type, form)
           \/ \E slug \in Slugs : PickSlug(r, slug)
           \/ \E owner \in Owners, l \in DOMAIN listings,
                 type \in PetListingType \cup {"unset"}, form \in Forms :
                 UpdateForOwner(r, owner, l, type, form)
           \/ CheckName(r)
           \/ \E owner \in Owners, l \in DOMAIN listings, status \in AskedStatuses :
                 UpdateStatusForOwner(r, owner, l, status)
           \/ \E l \in DOMAIN listings : GetPublic(r, l)
           \/ Fail(r)
    PROVE  InTurn'
<1>0. StillHolds(reqs[r], listings) /\ LiveNamesAreUnique' /\ ChoicesAreMirrored'
  BY DEF InTurn, LiveNamesAreUnique, ChoicesAreMirrored
<1>1. ASSUME NEW e, Become(r, e), StillHolds(e, listings) PROVE InTurn'
  BY <1>0, <1>1, AloneStep
<1>2. ASSUME NEW owner \in Owners, NEW type \in PetListingType, NEW form \in Forms,
             Create(r, owner, type, form)
      PROVE  InTurn'
  <2> DEFINE e == [stage |-> "named", owner |-> owner, columns |-> ColumnsFromAnswers(type, form)]
  <2>1. Become(r, e) /\ Namesakes(owner, form.name, {}) = {}
    BY <1>2 DEF Create
  <2>2. /\ e.stage = "named" /\ e.owner = owner /\ e.columns.name = form.name
    BY DEF ColumnsFromAnswers
  <2> HIDE DEF e
  <2>3. StillHolds(e, listings)
    BY <2>1, <2>2 DEF StillHolds, Namesakes
  <2> QED
    BY <1>1, <2>1, <2>3
<1>3. ASSUME NEW slug \in Slugs, PickSlug(r, slug) PROVE InTurn'
  <2> DEFINE e == [stage |-> "linked", owner |-> reqs[r].owner,
                   columns |-> reqs[r].columns, slug |-> slug]
  <2>1. Become(r, e) /\ reqs[r].stage = "named"
    BY <1>3 DEF PickSlug
  <2>2. StillHolds(e, listings)
    BY <1>0, <2>1 DEF StillHolds
  <2> QED
    BY <1>1, <2>1, <2>2
<1>4. ASSUME NEW owner \in Owners, NEW l \in DOMAIN listings,
             NEW type \in PetListingType \cup {"unset"}, NEW form \in Forms,
             UpdateForOwner(r, owner, l, type, form)
      PROVE  InTurn'
  <2> DEFINE next == IF type \in PetListingType THEN type ELSE listings[l].type
             e == [stage |-> "editing", id |-> l, seen |-> ColumnsOf(listings[l]),
                   columns |-> ColumnsFromAnswers(next, form)]
  <2>1. Become(r, e)
    BY <1>4 DEF UpdateForOwner
  <2>2. StillHolds(e, listings)
    BY DEF StillHolds
  <2> HIDE DEF e
  <2> QED
    BY <1>1, <2>1, <2>2
<1>5. ASSUME CheckName(r) PROVE InTurn'
  <2> DEFINE e == [reqs[r] EXCEPT !.stage = "edited"]
  <2>1. /\ Become(r, e) /\ reqs[r].stage = "editing"
        /\ Namesakes(listings[reqs[r].id].owner, reqs[r].columns.name, {reqs[r].id}) = {}
        /\ reqs[r] \in [stage : {"editing", "edited"}, id : Nat \ {0},
                        seen : Columns, columns : Columns]
    BY <1>5, RequestFacts DEF CheckName, PetsInv
  <2>2. /\ e.stage = "edited" /\ e.id = reqs[r].id
        /\ e.seen = reqs[r].seen /\ e.columns = reqs[r].columns
    BY <2>1
  <2> HIDE DEF e
  <2>3. StillHolds(e, listings)
    BY <1>0, <2>1, <2>2 DEF StillHolds, Namesakes
  <2> QED
    BY <1>1, <2>1, <2>3
<1>6. ASSUME NEW owner \in Owners, NEW l \in DOMAIN listings, NEW status \in AskedStatuses,
             UpdateStatusForOwner(r, owner, l, status)
      PROVE  InTurn'
  <2> DEFINE e == [stage |-> "moving", id |-> l, seen |-> listings[l].status,
                   status |-> status]
  <2>1. Become(r, e) /\ listings[l].status # "ARCHIVED"
    BY <1>6 DEF UpdateStatusForOwner
  <2>2. StillHolds(e, listings)
    BY <2>1 DEF StillHolds
  <2> HIDE DEF e
  <2> QED
    BY <1>1, <2>1, <2>2
<1>7. ASSUME NEW l \in DOMAIN listings, GetPublic(r, l) PROVE InTurn'
  <2> DEFINE e == [stage |-> "viewing", id |-> l]
  <2>1. Become(r, e) /\ StillHolds(e, listings)
    BY <1>7 DEF GetPublic, StillHolds
  <2> HIDE DEF e
  <2> QED
    BY <1>1, <2>1
<1>8. CASE Fail(r)
  BY <1>1, <1>8, IdleHolds DEF Fail
<1> QED
  BY <1>2, <1>3, <1>4, <1>5, <1>6, <1>7, <1>8

LEMMA InTurnStep ==
    ASSUME PetsInv, InTurn, NEW r \in Requests, Alone(r), Handle(r)
    PROVE  InTurn'
<1>1. ASSUME \/ \E owner \in Owners, type \in PetListingType, form \in Forms :
                   Create(r, owner, type, form)
             \/ \E slug \in Slugs : PickSlug(r, slug)
             \/ \E owner \in Owners, l \in DOMAIN listings,
                   type \in PetListingType \cup {"unset"}, form \in Forms :
                   UpdateForOwner(r, owner, l, type, form)
             \/ CheckName(r)
             \/ \E owner \in Owners, l \in DOMAIN listings, status \in AskedStatuses :
                   UpdateStatusForOwner(r, owner, l, status)
             \/ \E l \in DOMAIN listings : GetPublic(r, l)
             \/ Fail(r)
      PROVE  InTurn'
  <2>1. UNCHANGED listings
    BY <1>1 DEF Create, PickSlug, UpdateForOwner, CheckName, UpdateStatusForOwner, GetPublic, Fail
  <2> QED
    BY <1>1, <2>1, ReadInTurn
<1> QED
  BY <1>1, PublishedInTurn, EditedInTurn, MovedInTurn, ViewedInTurn
     DEF Handle, Publish, Change, View

LEMMA TurnStep ==
    ASSUME PetsInv, overlapped \/ InTurn, [TurnNext]_turnVars
    PROVE  PetsInv' /\ (overlapped \/ InTurn)'
<1>1. ASSUME NEW r \in Requests, Handle(r), overlapped' = (overlapped \/ ~Alone(r))
      PROVE  PetsInv' /\ (overlapped \/ InTurn)'
  BY <1>1, HandleStep, InTurnStep
<1>2. CASE UNCHANGED turnVars
  <2>1. UNCHANGED vars /\ UNCHANGED overlapped
    BY <1>2 DEF turnVars
  <2>2. PetsInv'
    BY <2>1, PetsStep
  <2>3. InTurn => InTurn'
    BY <2>1 DEF vars, InTurn, LiveNamesAreUnique, ChoicesAreMirrored
  <2> QED
    BY <2>1, <2>2, <2>3
<1> QED
  BY <1>1, <1>2 DEF TurnNext

LEMMA TurnInvariant == TurnSpec => [](PetsInv /\ (overlapped \/ InTurn))
<1>1. TurnInit => PetsInv /\ InTurn
  BY PetsStart, IdleHolds
     DEF TurnInit, Init, InTurn, LiveNamesAreUnique, ChoicesAreMirrored
<1> QED
  BY <1>1, TurnStep, PTL DEF TurnSpec

\* Until requests overlap, no owner has two live listings of one name: edits,
\* removals and the status buttons included.
THEOREM LiveNamesStayUniqueInTurn == TurnSpec => []LiveNamesAreUniqueInTurn
<1>1. overlapped \/ InTurn => LiveNamesAreUniqueInTurn
  BY DEF LiveNamesAreUniqueInTurn, InTurn
<1> QED
  BY <1>1, TurnInvariant, PTL

\* Until requests overlap, the answer saved by difference and the answer
\* replaced wholesale are the same.
THEOREM ChoicesStayMirroredInTurn == TurnSpec => []ChoicesAreMirroredInTurn
<1>1. overlapped \/ InTurn => ChoicesAreMirroredInTurn
  BY DEF ChoicesAreMirroredInTurn, InTurn
<1> QED
  BY <1>1, TurnInvariant, PTL

============================================================================
