------------------------------ MODULE PetForm ------------------------------
(***************************************************************************)
(* The add-pet form as rows, and the listings that answer it.  A deploy    *)
(* ships a version of pet-form-schema.cjs and the seeder publishes it, one *)
(* autocommitted statement at a time; meanwhile customers fill the form in:*)
(* an edit loads its listing, resolveAnswers reads every option, retired   *)
(* ones included, and later one transaction saves both halves of each      *)
(* choice: of the strings the columns that differ from what was loaded     *)
(* (Sequelize!Saved), of the ids every row.  Foreign keys refuse to delete *)
(* a question or an option a listing refers to.                            *)
(*                                                                         *)
(* One scope stands for all: another animal's questions are other keys.    *)
(* Breed, colours and the long tail refer to options from three tables, so *)
(* an answer is its values and its option ids, and the constants say which *)
(* column of the listing holds which of them.                              *)
(***************************************************************************)
EXTENDS Integers, FiniteSets, Sequences, SequencesExt, Sequelize

CONSTANTS
    Keys, Values,
    MultiKeys,          \* the keys whose input type is MULTI_SELECT
    OtherKeys,          \* the keys that allow Other
    Other,              \* the sentinel __other__
    Columns,            \* the string columns, each the <<key, value>> it can hold
    BreedKeys,          \* the key whose id is a column, breedOptionId, too
    Versions,           \* the versions of the file, in the order they ship
    Listings, NoListing,
    Requests,
    MaxOptions          \* bound: option rows ever inserted

VARIABLES
    questions,          \* the keys of the table pet_attributes
    options,            \* the table pet_attribute_options
    born,               \* how many option rows were ever inserted; the newest id
    listings,           \* the answers of each listing, or NoListing
    version,            \* the version of the file that is deployed
    seeder,             \* the process that runs the form's seeder
    reqs,               \* the requests in flight
    crossed             \* history: the listings last saved over a row that had
                        \* changed since it was loaded

formVars == <<questions, options, born>>
vars     == <<formVars, listings, version, seeder, reqs, crossed>>

Option == [id : 1 .. MaxOptions, key : Keys, value : Values, isActive : BOOLEAN]
Answer == [values : SUBSET (Values \cup {Other}), ids : SUBSET (1 .. MaxOptions)]
Row    == [Keys -> Answer]

Idle == [stage |-> "idle"]

\* The rows of the deployed file: a sequence of a key and its values each.
File == Versions[version]

----------------------------------------------------------------------------
(* Resolving answers *)

\* Mutant: a retired option is no longer an option.
ActiveOptionsOf(key) == {o \in options : o.key = key /\ o.isActive}

\* ANY_OPTION_INCLUDE.
AnyOptionOf(key) == {o \in options : o.key = key}

\* resolveOne: an id or a value, whatever its case, names an option.
Match(key, token) == {o \in AnyOptionOf(key) : token \in {o.id, o.value}}

IsOther(key, token) == key \in OtherKeys /\ token = Other

\* What resolveAnswers accepts: one token each, or several for a multi-select.
IsAcceptable(key, tokens) ==
    /\ key \in MultiKeys \/ Cardinality(tokens) <= 1
    /\ \A token \in tokens : IsOther(key, token) \/ Match(key, token) # {}

\* Every token replaced by the value and the id of its option.
Resolve(key, tokens) ==
    LET chosen == UNION {Match(key, token) : token \in tokens} IN
    [values |-> {o.value : o \in chosen} \cup (tokens \cap {Other}),
     ids    |-> {o.id : o \in chosen}]

----------------------------------------------------------------------------
(* Customers *)

Init ==
    /\ questions = {} /\ options = {} /\ born = 0
    /\ listings = [l \in Listings |-> NoListing]
    /\ version = 1
    /\ seeder = Idle
    /\ reqs = [r \in Requests |-> Idle]
    /\ crossed = {}

\* create starts with no row, updateForOwner with the one it finds.
Load(r, l) ==
    /\ reqs[r] = Idle
    /\ reqs' = [reqs EXCEPT ![r] = [stage |-> "loaded", listing |-> l, loaded |-> listings[l]]]
    /\ UNCHANGED <<formVars, listings, version, seeder, crossed>>

\* resolveAnswers, the client sending values or ids.  It answers what the form
\* asks.
Submit(r, tokens) ==
    /\ reqs[r].stage = "loaded"
    /\ \A k \in questions : IsAcceptable(k, tokens[k])
    /\ reqs' = [reqs EXCEPT ![r] =
                   [stage   |-> "resolved",
                    listing |-> reqs[r].listing,
                    loaded  |-> reqs[r].loaded,
                    answers |-> [k \in Keys |-> IF k \in questions THEN Resolve(k, tokens[k])
                                                ELSE [values |-> {}, ids |-> {}]]]]
    /\ UNCHANGED <<formVars, listings, version, seeder, crossed>>

\* An edit posts the whole answer map again, the saved strings included.
Resave(r) ==
    /\ reqs[r].stage = "loaded" /\ reqs[r].loaded # NoListing
    /\ Submit(r, [k \in questions |-> reqs[r].loaded[k].values])

\* The foreign keys to pet_attribute_options.
ReferencesHold(ids) == ids \subseteq {o.id : o \in options}

StringsOf(row) == {c \in Keys \X (Values \cup {Other}) : c[2] \in row[c[1]].values}

\* The strings: a column is sent when it differs from what was loaded.  (So is a
\* list in another order, which an answer does not tell.)
SavedStrings(q, stored) ==
    UNION {Saved(StringsOf(q.answers) \cap column, StringsOf(q.loaded) \cap column,
                 StringsOf(stored) \cap column) : column \in Columns}

\* The ids: breedOptionId is a column as well, the rest are rows of their own,
\* deleted and inserted again.
SavedIds(q, stored, k) ==
    IF k \in BreedKeys
    THEN Saved(q.answers[k].ids, q.loaded[k].ids, stored[k].ids)
    ELSE q.answers[k].ids

SavedRow(q, stored) ==
    LET strings == SavedStrings(q, stored) IN
    [k \in Keys |-> [values |-> {v \in Values \cup {Other} : <<k, v>> \in strings},
                     ids    |-> SavedIds(q, stored, k)]]

\* The transaction ends with this row, under the foreign keys.
Write(r, row) ==
    LET q == reqs[r] IN
    /\ \A k \in Keys : ReferencesHold(row[k].ids)
    /\ listings' = [listings EXCEPT ![q.listing] = row]
    /\ crossed' = IF listings[q.listing] = q.loaded THEN crossed \ {q.listing}
                                                    ELSE crossed \cup {q.listing}
    /\ reqs' = [reqs EXCEPT ![r] = Idle]
    /\ UNCHANGED <<formVars, version, seeder>>

\* create inserts everything, for a listing that is new.
Create(r) ==
    /\ reqs[r].stage = "resolved" /\ reqs[r].loaded = NoListing
    /\ listings[reqs[r].listing] = NoListing
    /\ Write(r, reqs[r].answers)

\* An edit saves onto what the row holds by then.
Save(r) ==
    /\ reqs[r].stage = "resolved" /\ reqs[r].loaded # NoListing
    /\ Write(r, SavedRow(reqs[r], listings[reqs[r].listing]))

\* The rest of the handler refuses, a foreign key does, or the process dies.
Fail(r) ==
    /\ reqs[r] # Idle
    /\ reqs' = [reqs EXCEPT ![r] = Idle]
    /\ UNCHANGED <<formVars, listings, version, seeder, crossed>>

\* Staff retire an option.  The console's code is not in the repository.
Retire(o) ==
    /\ o.isActive
    /\ options' = (options \ {o}) \cup {[o EXCEPT !.isActive = FALSE]}
    /\ UNCHANGED <<questions, born, listings, version, seeder, reqs, crossed>>

----------------------------------------------------------------------------
(* The seeder *)

\* A deploy ships the next version while no seeder runs.
Deploy ==
    /\ seeder.stage \in {"idle", "done"}
    /\ version < Len(Versions)
    /\ version' = version + 1
    /\ seeder' = Idle
    /\ UNCHANGED <<formVars, listings, reqs, crossed>>

\* A seed call reaches the form's seeder.
StartSeeder ==
    /\ seeder.stage \in {"idle", "done"}
    /\ seeder' = [stage |-> "field", at |-> 1]
    /\ UNCHANGED <<formVars, listings, version, reqs, crossed>>

\* No listing refers to an option of these keys.
IsFree(keys) ==
    \A l \in Listings : listings[l] # NoListing =>
        \A k \in keys : listings[l][k].ids = {}

\* Looks the question up and updates it, or inserts it.
UpsertQuestion ==
    LET key == File[seeder.at].key IN
    /\ seeder.stage = "field"
    /\ seeder' = [seeder EXCEPT !.stage = IF key \in questions THEN "clear" ELSE "fill"]
    /\ questions' = questions \cup {key}
    /\ UNCHANGED <<options, born, listings, version, reqs, crossed>>

\* Deletes the options of an existing question, all of them or none.
ClearOptions ==
    LET key == File[seeder.at].key IN
    /\ seeder.stage = "clear"
    /\ IsFree({key})
    /\ options' = options \ AnyOptionOf(key)
    /\ seeder' = [seeder EXCEPT !.stage = "fill"]
    /\ UNCHANGED <<questions, born, listings, version, reqs, crossed>>

\* One bulk insert of the field's options, each under a fresh id.
FillOptions ==
    LET field  == File[seeder.at]
        values == SetToSeq(field.values)
    IN
    /\ seeder.stage = "fill"
    /\ born + Len(values) <= MaxOptions
    /\ options' = options \cup
           {[id |-> born + i, key |-> field.key, value |-> values[i], isActive |-> TRUE] :
                i \in DOMAIN values}
    /\ born' = born + Len(values)
    /\ seeder' = IF seeder.at = Len(File)
                 THEN [stage |-> "prune"]
                 ELSE [stage |-> "field", at |-> seeder.at + 1]
    /\ UNCHANGED <<questions, listings, version, reqs, crossed>>

\* Mutant: upserting is enough.
PruneNothing ==
    /\ seeder.stage = "prune"
    /\ seeder' = [stage |-> "done"]
    /\ UNCHANGED <<formVars, listings, version, reqs, crossed>>

\* Deletes the questions the file no longer has, and with them their options.
Prune ==
    LET dropped == questions \ {File[i].key : i \in DOMAIN File} IN
    /\ seeder.stage = "prune"
    /\ IsFree(dropped)
    /\ questions' = questions \ dropped
    /\ options' = {o \in options : o.key \notin dropped}
    /\ seeder' = [stage |-> "done"]
    /\ UNCHANGED <<born, listings, version, reqs, crossed>>

\* A statement is refused, or the process dies: what was committed stays.
StopSeeder ==
    /\ seeder.stage \in {"field", "clear", "fill", "prune"}
    /\ seeder' = Idle
    /\ UNCHANGED <<formVars, listings, version, reqs, crossed>>

Next ==
    \/ \E r \in Requests :
          \/ \E l \in Listings : Load(r, l)
          \/ \E tokens \in [questions -> SUBSET (Values \cup {Other})] : Submit(r, tokens)
          \/ \E tokens \in [questions -> SUBSET {o.id : o \in options}] : Submit(r, tokens)
          \/ Resave(r) \/ Create(r) \/ Save(r) \/ Fail(r)
    \/ \E o \in options : Retire(o)
    \/ Deploy \/ StartSeeder
    \/ UpsertQuestion \/ ClearOptions \/ FillOptions \/ Prune \/ StopSeeder

Spec == Init /\ [][Next]_vars

----------------------------------------------------------------------------
(* Properties *)

\* Rows and answers are well-formed, an id and a value of a question name one
\* option, and every option has its question.
TypeOK ==
    /\ questions \subseteq Keys
    /\ options \subseteq Option
    /\ \A o, p \in options : o.id = p.id \/ (o.key = p.key /\ o.value = p.value) => o = p
    /\ born \in 0 .. MaxOptions /\ \A o \in options : o.key \in questions /\ o.id <= born
    /\ listings \in [Listings -> {NoListing} \cup Row] /\ crossed \subseteq Listings
    /\ version \in DOMAIN Versions
    /\ reqs \in [Requests -> {Idle}
           \cup [stage : {"loaded"}, listing : Listings, loaded : {NoListing} \cup Row]
           \cup [stage : {"resolved"}, listing : Listings, loaded : {NoListing} \cup Row,
                 answers : Row]]

\* "Someone editing a listing published under a breed that has since been
\* retired must be able to save it again": every option a listing refers to
\* still exists under its question and its id still resolves to it, whatever was
\* retired, shipped or re-seeded, and wherever a seeder stopped.  Unless the last
\* save was over a row changed since it was loaded, the strings say the same: the
\* value of each id resolves to its option, and no other string is left.
SavedAnswersStayValid ==
    \A l \in Listings : listings[l] # NoListing => \A k \in Keys :
        LET saved == listings[l][k] IN
        /\ \A id \in saved.ids : \E o \in options :
              /\ Match(k, id) = {o}
              /\ l \notin crossed => o.value \in saved.values /\ Match(k, o.value) = {o}
        /\ l \notin crossed => \A v \in saved.values :
              IsOther(k, v) \/ \E o \in options : o.id \in saved.ids /\ o.value = v

\* "It upserts each attribute, replaces that attribute's option rows, and prunes
\* attributes the file no longer defines, rather than assuming an empty table":
\* a run that ends leaves exactly the file's form, whichever version and however
\* many interrupted runs it found.
PublishedFormIsTheFile ==
    seeder.stage = "done" =>
        /\ questions = {File[i].key : i \in DOMAIN File}
        /\ \A i \in DOMAIN File :
              {o.value : o \in AnyOptionOf(File[i].key)} = File[i].values
        /\ \A o \in options : o.key \in questions

\* "Re-running it is how you publish a change": the statements of the seeder
\* that delete are free to run.
NothingHoldsTheSeederBack ==
    /\ seeder.stage = "clear" => IsFree({File[seeder.at].key})
    /\ seeder.stage = "prune" => IsFree(questions \ {File[i].key : i \in DOMAIN File})

=============================================================================
