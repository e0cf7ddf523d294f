------------------------------ MODULE Customer ------------------------------
(***************************************************************************)
(* What surrounds a customer: addresses, the wishlist, the pet form with   *)
(* its answers, the seeding that publishes the form and the places of      *)
(* listings.  These parts share no table, so a step of one can neither     *)
(* enable nor disturb a step of another: instead of their product, a       *)
(* behaviour exercises one of them, the one named by focus.  "data" has no *)
(* steps: what is asked of data alone is asked there, once.                *)
(***************************************************************************)
EXTENDS AddressesInTurn, Places, Sequences

CONSTANTS
    ToggleRequests, Items, MaxHearts,                           \* Wishlist
    Keys, Values, MultiKeys, OtherKeys, Other, Versions,        \* PetForm
    Columns, BreedKeys, Pets, NoListing, FormRequests, MaxOptions,
    DemoUsers, DemoPartner, DemoStores, Profiled,               \* Seeding
    ReviewCustomer, ReviewPartner, ReviewSlug,
    Categories, NoUser, NoStore, MaxIds

VARIABLES
    focus,
    rows, hearts, public, toggleReqs, burst,
    questions, options, born, listings, version, seeder, formReqs, crossed,
    users, stores, lastId, form, answered, categories, asking, call

ASSUME HeartsAssumption == MaxHearts \in Nat

\* The accounts of the seed files: an account owns at most one demo store, the
\* owners are no plain demo users, and the review customer owns nothing.
ASSUME SeedsAssumption ==
    /\ MaxIds \in Nat /\ NoUser # NoStore /\ {NoUser, NoStore} \cap 1 .. MaxIds = {}
    /\ IsFiniteSet(DOMAIN DemoStores) /\ ReviewSlug \notin DOMAIN DemoStores
    /\ \A s, t \in DOMAIN DemoStores : DemoStores[s] = DemoStores[t] => s = t
    /\ \A s \in DOMAIN DemoStores :
          DemoStores[s] \notin (DemoUsers \ {DemoPartner}) \cup {ReviewCustomer}
    /\ DemoPartner \in DemoUsers /\ ReviewCustomer # ReviewPartner

Hearts == INSTANCE Wishlist WITH
    Requests <- ToggleRequests, MaxRows <- MaxHearts, born <- hearts, reqs <- toggleReqs

Form == INSTANCE PetForm WITH
    Listings <- Pets, Requests <- FormRequests, reqs <- formReqs

\* A version of the file asks something, asks nothing twice and names finitely
\* many options; a value is not the id of an option.  Each string of a listing has
\* its column.
ASSUME FormAssumption ==
    /\ MaxOptions \in Nat
    /\ (Values \cup {Other}) \cap 1 .. MaxOptions = {} /\ NoListing \notin Form!Row
    /\ Keys \X (Values \cup {Other}) = UNION Columns
    /\ Versions \in Seq(Seq([key : Keys, values : SUBSET Values])) /\ Versions # <<>>
    /\ \A v \in DOMAIN Versions :
          /\ Versions[v] # <<>>
          /\ \A i \in DOMAIN Versions[v] : IsFiniteSet(Versions[v][i].values)
          /\ \A i, j \in DOMAIN Versions[v] : Versions[v][i].key = Versions[v][j].key => i = j

Seeds == INSTANCE Seeding

seedVars == <<users, stores, lastId, form, answered, categories, asking, call>>
petVars  == <<questions, options, born, listings, version, seeder, formReqs, crossed>>
hearVars == <<rows, hearts, public, toggleReqs, burst>>
allVars  == <<turnVars, hearVars, petVars, seedVars, focus>>

AllInit ==
    /\ focus \in {"addresses", "wishlist", "form", "seeding", "data"}
    /\ TurnInit /\ Hearts!Init /\ Form!Init /\ Seeds!Init

AllNext ==
    /\ UNCHANGED focus
    /\ \/ focus = "addresses" /\ TurnNext      /\ UNCHANGED <<hearVars, petVars, seedVars>>
       \/ focus = "wishlist"  /\ Hearts!Next   /\ UNCHANGED <<turnVars, petVars, seedVars>>
       \/ focus = "form"      /\ Form!Next     /\ UNCHANGED <<turnVars, hearVars, seedVars>>
       \/ focus = "seeding"   /\ Seeds!Next    /\ UNCHANGED <<turnVars, hearVars, petVars>>

AllSpec == AllInit /\ [][AllNext]_allVars

----------------------------------------------------------------------------
(* Properties *)

\* Every table holds what it can hold, in each of the parts.
TypesOK == TypeOK /\ Hearts!TypeOK /\ Form!TypeOK /\ Seeds!TypeOK

\* Hearts: taps that all looked before one of them wrote flip the heart once.
OverlappingTapsFlipOnce == Hearts!OverlappingTapsFlipOnce

\* Answers: what a listing was saved with still resolves to the same options, the
\* ids always and the strings unless its last save was over a changed row.
SavedAnswersStayValid == Form!SavedAnswersStayValid

\* Seeding the form: a run that ends leaves exactly the file's form.
PublishedFormIsTheFile == Form!PublishedFormIsTheFile

\* Demo accounts: the account that owns a store has that store in its token.
OwnersPointAtTheirStore == Seeds!OwnersPointAtTheirStore

\* Places: the state on a listing's card is one whose filter finds the listing.
LabelsAreFound == focus = "data" => LabelIsFound

=============================================================================
