------------------------------ MODULE Seeding ------------------------------
(***************************************************************************)
(* POST /system/seed on a migrated database: services/system/              *)
(* seed.service.js runs sequelize-cli db:seed:all, which remembers nothing *)
(* of earlier calls (no seederStorage is configured) and so runs every     *)
(* seeder again, in the order of the file names, until a statement is      *)
(* refused.  Each statement commits by itself; the next call finds whatever*)
(* the last one left.  A developer may also run a single seeder.           *)
(*                                                                         *)
(* One call at a time, and nobody registers a demo account's address before*)
(* the seeders do.  PetForm has the statements of the form's seeder.       *)
(***************************************************************************)
EXTENDS Integers, FiniteSets, Sequences

CONSTANTS
    DemoUsers,          \* the addresses of demo-users.cjs
    DemoPartner,        \* the one among them that gets a placeholder store id
    DemoStores,         \* the address of the owner of each slug of STORES
    Profiled,           \* the slugs whose business type still has a profile
    ReviewCustomer, ReviewPartner, ReviewSlug,
    Categories,         \* the slugs of the taxonomy
    NoUser, NoStore,
    MaxIds              \* bound: store ids drawn

VARIABLES
    users,              \* each account's partner_store_id, NoStore or NoUser
    stores,             \* the table stores
    lastId,             \* the store ids drawn so far; the newest one
    form,               \* whether the pet form has been published
    answered,           \* whether a listing answers it
    categories,         \* the slugs of the table categories
    asking,             \* those whose category_attributes are there
    call                \* the call in progress, or how the last one ended

tables == <<users, stores, lastId, form, categories, asking>>
vars   == <<tables, answered, call>>

Emails == DemoUsers \cup {DemoStores[s] : s \in DOMAIN DemoStores}
              \cup {ReviewCustomer, ReviewPartner}
Slugs  == DOMAIN DemoStores \cup {ReviewSlug}

Store == [id : 1 .. MaxIds, slug : Slugs, owner : Emails]

\* The statements that write, in the order of a full call.
Seeders == <<"demo-users", "demo-partner-stores", "pet-form-schema",
             "play-review-accounts", "partner-taxonomy">>

Ended == [at |-> "ended"]

\* What follows seeder i: the next file, or the end of the call.
After(i) == IF call.alone \/ i = Len(Seeders)
            THEN Ended
            ELSE [at |-> Seeders[i + 1], alone |-> FALSE]

\* A statement the database refuses ends the call; sequelize-cli exits.
Refused == call' = [at |-> "refused", alone |-> call.alone] /\ UNCHANGED tables

----------------------------------------------------------------------------
(* Calls *)

Init ==
    /\ users = [e \in Emails |-> NoUser]
    /\ stores = {} /\ lastId = 0
    /\ form = FALSE /\ answered = FALSE
    /\ categories = {} /\ asking = {}
    /\ call = Ended

Over == call.at \in {"ended", "refused"}

\* seedAll: migrations have run, the first seeder is next.
SeedAll ==
    /\ Over
    /\ call' = [at |-> Seeders[1], alone |-> FALSE]
    /\ UNCHANGED <<tables, answered>>

\* sequelize-cli db:seed --seed: one file by itself.
SeedOne(i) ==
    /\ Over
    /\ call' = [at |-> Seeders[i], alone |-> TRUE]
    /\ UNCHANGED <<tables, answered>>

\* The child process dies between two statements.
Crash ==
    /\ ~Over
    /\ call' = Ended
    /\ UNCHANGED <<tables, answered>>

\* A customer's first listing answers the form.
Publish ==
    /\ form /\ ~answered
    /\ answered' = TRUE
    /\ UNCHANGED <<tables, call>>

----------------------------------------------------------------------------
(* Seeders *)

\* Inserts the demo accounts that are missing.
InsertDemoUsers ==
    /\ call.at = Seeders[1]
    /\ users[DemoPartner] = NoUser => lastId < MaxIds
    /\ users' = [e \in Emails |->
                     IF e \in DemoUsers /\ users[e] = NoUser
                     THEN IF e = DemoPartner THEN lastId + 1 ELSE NoStore
                     ELSE users[e]]
    /\ lastId' = IF users[DemoPartner] = NoUser THEN lastId + 1 ELSE lastId
    /\ call' = After(1)
    /\ UNCHANGED <<stores, form, answered, categories, asking>>

MissingStores == {s \in DOMAIN DemoStores : \A t \in stores : t.slug # s}

\* Mutant: every store gets an id of its own.
FreshIds(plan) == \A s \in DOMAIN plan : plan[s] > lastId

\* The id the owner's row already points at, else a fresh one.
ReusesPlaceholders(plan) ==
    \A s \in DOMAIN plan :
        IF users[DemoStores[s]] \in 1 .. MaxIds
        THEN plan[s] = users[DemoStores[s]]
        ELSE plan[s] > lastId

\* Looks accounts and slugs up and inserts the owners that are missing, each
\* pointing at the store it is about to own.
InsertOwners ==
    /\ call.at = Seeders[2]
    /\ \E plan \in [MissingStores -> 1 .. MaxIds] :
          /\ ReusesPlaceholders(plan)
          /\ \A s, t \in MissingStores : plan[s] = plan[t] => s = t
          /\ users' = [e \in Emails |->
                 IF users[e] # NoUser \/ \A s \in MissingStores : DemoStores[s] # e
                 THEN users[e]
                 ELSE plan[CHOOSE s \in MissingStores : DemoStores[s] = e]]
          /\ lastId' = lastId + Cardinality({s \in MissingStores : plan[s] > lastId})
          /\ \A s \in MissingStores : plan[s] <= lastId'
          /\ call' = [at |-> "stores", alone |-> call.alone, plan |-> plan]
    /\ UNCHANGED <<stores, form, answered, categories, asking>>

\* id, slug and owner_user_id are unique.
Inserts(new) ==
    \A s \in new, t \in stores : s.id # t.id /\ s.slug # t.slug /\ s.owner # t.owner

Planned == {[id |-> call.plan[s], slug |-> s, owner |-> DemoStores[s]] : s \in DOMAIN call.plan}

\* One bulk insert of the missing stores.
InsertStores ==
    /\ call.at = "stores"
    /\ IF Inserts(Planned)
       THEN /\ stores' = stores \cup Planned
            /\ call' = [at |-> "profiles", alone |-> call.alone, plan |-> call.plan]
            /\ UNCHANGED <<users, lastId, form, categories, asking>>
       ELSE Refused
    /\ UNCHANGED answered

\* The tables of the profiles were dropped by the capability migration.
InsertProfiles ==
    /\ call.at = "profiles"
    /\ IF DOMAIN call.plan \cap Profiled = {}
       THEN call' = After(2) /\ UNCHANGED tables
       ELSE Refused
    /\ UNCHANGED answered

\* Refused where a listing refers to an option.
PublishForm ==
    /\ call.at = Seeders[3]
    /\ IF answered
       THEN Refused
       ELSE /\ form' = TRUE
            /\ call' = After(3)
            /\ UNCHANGED <<users, stores, lastId, categories, asking>>
    /\ UNCHANGED answered

\* Inserts the review customer or makes it a customer again.
UpsertReviewCustomer ==
    /\ call.at = Seeders[4]
    /\ users' = [users EXCEPT ![ReviewCustomer] = NoStore]
    /\ call' = [at |-> "review-partner", alone |-> call.alone]
    /\ UNCHANGED <<stores, lastId, form, answered, categories, asking>>

\* The store of the review slug, else the one the account points at, else a
\* fresh id.
UpsertReviewPartner ==
    /\ call.at = "review-partner"
    /\ \E id \in 1 .. MaxIds :
          /\ \/ \E s \in stores : s.slug = ReviewSlug /\ s.id = id
             \/ /\ \A s \in stores : s.slug # ReviewSlug
                /\ IF users[ReviewPartner] \in 1 .. MaxIds
                   THEN id = users[ReviewPartner]
                   ELSE id = lastId + 1
          /\ users' = [users EXCEPT ![ReviewPartner] = id]
          /\ lastId' = IF id > lastId THEN id ELSE lastId
    /\ call' = [at |-> "review-store", alone |-> call.alone]
    /\ UNCHANGED <<stores, form, answered, categories, asking>>

\* Updates the review store, or inserts it.
UpsertReviewStore ==
    LET new == [id |-> users[ReviewPartner], slug |-> ReviewSlug, owner |-> ReviewPartner] IN
    /\ call.at = "review-store"
    /\ \/ /\ \E s \in stores : s.slug = ReviewSlug
          /\ call' = After(4)
          /\ UNCHANGED tables
       \/ /\ \A s \in stores : s.slug # ReviewSlug
          /\ IF Inserts({new})
             THEN /\ stores' = stores \cup {new}
                  /\ call' = [at |-> "review-profile", alone |-> call.alone]
                  /\ UNCHANGED <<users, lastId, form, categories, asking>>
             ELSE Refused
    /\ UNCHANGED answered

\* kennel_profiles is gone as well.
InsertReviewProfile ==
    /\ call.at = "review-profile"
    /\ Refused
    /\ UNCHANGED answered

\* Inserts the missing categories.
InsertCategories ==
    /\ call.at = Seeders[5]
    /\ categories' = categories \cup Categories
    /\ call' = [at |-> "questions", alone |-> call.alone, new |-> Categories \ categories]
    /\ UNCHANGED <<users, stores, lastId, form, answered, asking>>

\* Inserts the questions of the categories this run inserted.
InsertQuestions ==
    /\ call.at = "questions"
    /\ asking' = asking \cup call.new
    /\ call' = After(5)
    /\ UNCHANGED <<users, stores, lastId, form, answered, categories>>

Next ==
    \/ SeedAll
    \/ \E i \in DOMAIN Seeders : SeedOne(i)
    \/ Crash \/ Publish
    \/ InsertDemoUsers
    \/ InsertOwners \/ InsertStores \/ InsertProfiles
    \/ PublishForm
    \/ UpsertReviewCustomer \/ UpsertReviewPartner \/ UpsertReviewStore
    \/ InsertReviewProfile
    \/ InsertCategories \/ InsertQuestions

Spec == Init /\ [][Next]_vars

----------------------------------------------------------------------------
(* Properties *)

\* Rows are well-formed, and no two stores share an id, a slug or an owner.
TypeOK ==
    /\ users \in [Emails -> {NoUser, NoStore} \cup 1 .. MaxIds]
    /\ lastId \in 0 .. MaxIds
    /\ stores \subseteq Store
    /\ \A s, t \in stores : s.id = t.id \/ s.slug = t.slug \/ s.owner = t.owner => s = t
    /\ {form, answered} \subseteq BOOLEAN /\ (answered => form)
    /\ asking \subseteq categories /\ categories \subseteq Categories

\* "So the two rows point at each other without having to rewrite the user":
\* the account that owns a store has that store in its token, whichever seeders
\* ran in whichever order and wherever they stopped.
OwnersPointAtTheirStore == \A s \in stores : users[s.owner] = s.id

\* "From however it currently is to fully migrated and fully seeded": the
\* database refuses no statement of a call.
CallsAreNeverRefused == ~(call.at = "refused" /\ ~call.alone)

=============================================================================
